---- MODULE Spec2Model ----
(***************************************************************************)
(* PledgeBot: the trade lifecycle (create, done, discount, cancel) over    *)
(* the trades table.  The persistence functions of src/src/discord.ts are  *)
(* operators over the table; the command and component handlers are       *)
(* processes whose steps are the persistence statements they await, so     *)
(* that two requests interleave exactly where the code awaits.             *)
(*                                                                         *)
(* Nullable columns hold Null (<<>>) or Some(v) (<<v>>).  The id of a      *)
(* trade is its index in the table (INTEGER PRIMARY KEY AUTOINCREMENT).    *)
(* title, image_url and the timestamps are never read by a transition and  *)
(* are left out of the row.                                                *)
(***************************************************************************)
EXTENDS Integers, Sequences, FiniteSets, TLC

VARIABLES trades, guilds, allowOffline, reqs, calls, orders, guildRoles, remote

vars == <<trades, guilds, allowOffline, reqs, calls, orders, guildRoles, remote>>

\* ------------------------------------------------------------------ bounds
MaxTrades == 1
MaxReqs == 2
MaxStock == 2
MaxCalls == 3
MaxOrders == 1

\* --------------------------------------------------------------- constants
MinPercent == 0
MaxPercent == 95

Null == <<>>
Some(v) == <<v>>
Undefined == <<"undefined", "undefined">>

trade_status == {"open", "matched", "escrow", "complete", "selled", "cancelled", "expired"}

Guilds == {"g1", "g2"}
Users == {"u1", "u2"}

\* ------------------------------------------------------- persistence layer

\* The row INSERT INTO trades ... RETURNING * produces: the columns the
\* statement names, every other column NULL.
NewTradeRow(p, status) ==
    [ guild_id |-> p.guildId,
      user_id |-> p.userId,
      auec |-> p.auec,
      discount_percent |-> Null,
      discounted_auec |-> Null,
      stock |-> p.stock,
      announcement_channel_id |-> Null,
      announcement_message_id |-> Null,
      done_one_button_custom_id |-> Null,
      done_all_button_custom_id |-> Null,
      cancel_button_custom_id |-> Null,
      status |-> status,
      reason |-> Null ]

\* Every persistence function yields the table after the call, the returned
\* row (Null for "no row") and whether it threw.
Result(db, row, threw) == [db |-> db, row |-> row, threw |-> threw]

createTrade(db, p) ==
    LET status == IF p.status = Null THEN "open" ELSE p.status[1]
    IN IF status \notin trade_status
         THEN Result(db, Null, TRUE)
         ELSE LET row == NewTradeRow(p, status)
              IN Result(Append(db, row), Some(row), FALSE)

getTradeById(db, tradeId) ==
    IF tradeId \in DOMAIN db THEN Some(db[tradeId]) ELSE Null

updateTradeStatus(db, tradeId, status, reason) ==
    IF status \notin trade_status
      THEN Result(db, Null, TRUE)
      ELSE IF tradeId \in DOMAIN db
             THEN LET row == [db[tradeId] EXCEPT !.status = status, !.reason = reason]
                  IN Result([db EXCEPT ![tradeId] = row], Some(row), FALSE)
             ELSE Result(db, Null, FALSE)

\* reduceTradeStock with a part of its WHERE clause or of its CASE changed.
ReduceWith(db, tradeId, amount, stockGuard, statusGuard, soldOutAt) ==
    IF amount <= 0
      THEN Result(db, Null, TRUE)
      ELSE IF /\ tradeId \in DOMAIN db
              /\ (stockGuard => db[tradeId].stock >= amount)
              /\ (statusGuard => db[tradeId].status = "open")
             THEN LET old == db[tradeId]
                      row == [old EXCEPT
                                !.stock = old.stock - amount,
                                !.status = IF old.stock - amount <= soldOutAt
                                             THEN "selled" ELSE old.status]
                  IN Result([db EXCEPT ![tradeId] = row], Some(row), FALSE)
             ELSE Result(db, Null, FALSE)

reduceTradeStock_NoStockGuard(db, tradeId, amount) ==
    ReduceWith(db, tradeId, amount, FALSE, TRUE, 0)

reduceTradeStock_NoStatusGuard(db, tradeId, amount) ==
    ReduceWith(db, tradeId, amount, TRUE, FALSE, 0)

reduceTradeStock_SoldOutBelowZero(db, tradeId, amount) ==
    ReduceWith(db, tradeId, amount, TRUE, TRUE, -1)

reduceTradeStock(db, tradeId, amount) ==
    IF amount <= 0
      THEN Result(db, Null, TRUE)
      ELSE IF /\ tradeId \in DOMAIN db
              /\ db[tradeId].stock >= amount
              /\ db[tradeId].status = "open"
             THEN LET old == db[tradeId]
                      row == [old EXCEPT
                                !.stock = old.stock - amount,
                                !.status = IF old.stock - amount <= 0
                                             THEN "selled" ELSE old.status]
                  IN Result([db EXCEPT ![tradeId] = row], Some(row), FALSE)
             ELSE Result(db, Null, FALSE)

\* SQLite ROUND(n / 100.0): to the nearest integer, halves away from zero.
\* Division by 100 that drops the fraction instead of rounding.
RoundDiv100_Truncates(n) == n \div 100

RoundDiv100(n) ==
    IF n >= 0 THEN (n + 50) \div 100 ELSE -((50 - n) \div 100)

\* updateTradeDiscount that clears discounted_auec but not the percent when
\* the discount is removed.
updateTradeDiscount_KeepsPercent(db, tradeId, percent) ==
    IF percent # Null /\ (percent[1] < MinPercent \/ percent[1] > MaxPercent)
      THEN Result(db, Null, TRUE)
      ELSE IF tradeId \in DOMAIN db
             THEN LET old == db[tradeId]
                      row == [old EXCEPT
                                !.discount_percent = IF percent = Null THEN @ ELSE percent,
                                !.discounted_auec =
                                    IF percent = Null
                                      THEN Null
                                      ELSE Some(RoundDiv100(old.auec * (100 - percent[1])))]
                  IN Result([db EXCEPT ![tradeId] = row], Some(row), FALSE)
             ELSE Result(db, Null, FALSE)

\* updateTradeDiscount without the check of the range.
updateTradeDiscount_NoRangeCheck(db, tradeId, percent) ==
    IF tradeId \in DOMAIN db
      THEN LET old == db[tradeId]
               row == [old EXCEPT
                         !.discount_percent = percent,
                         !.discounted_auec =
                             IF percent = Null
                               THEN Null
                               ELSE Some(RoundDiv100(old.auec * (100 - percent[1])))]
           IN Result([db EXCEPT ![tradeId] = row], Some(row), FALSE)
      ELSE Result(db, Null, FALSE)

\* updateTradeDiscount that leaves discounted_auec alone when the percent
\* is removed.
updateTradeDiscount_KeepsDiscounted(db, tradeId, percent) ==
    IF percent # Null /\ (percent[1] < MinPercent \/ percent[1] > MaxPercent)
      THEN Result(db, Null, TRUE)
      ELSE IF tradeId \in DOMAIN db
             THEN LET old == db[tradeId]
                      row == [old EXCEPT
                                !.discount_percent = percent,
                                !.discounted_auec =
                                    IF percent = Null
                                      THEN @
                                      ELSE Some(RoundDiv100(old.auec * (100 - percent[1])))]
                  IN Result([db EXCEPT ![tradeId] = row], Some(row), FALSE)
             ELSE Result(db, Null, FALSE)

updateTradeDiscount(db, tradeId, percent) ==
    IF percent # Null /\ (percent[1] < MinPercent \/ percent[1] > MaxPercent)
      THEN Result(db, Null, TRUE)
      ELSE IF tradeId \in DOMAIN db
             THEN LET old == db[tradeId]
                      row == [old EXCEPT
                                !.discount_percent = percent,
                                !.discounted_auec =
                                    IF percent = Null
                                      THEN Null
                                      ELSE Some(RoundDiv100(old.auec * (100 - percent[1])))]
                  IN Result([db EXCEPT ![tradeId] = row], Some(row), FALSE)
             ELSE Result(db, Null, FALSE)

\* A parameter that is Undefined leaves its column alone; Null clears it.
MetaParams(channelId, messageId, doneOne, doneAll, cancel) ==
    [ channelId |-> channelId, messageId |-> messageId,
      doneOneButtonId |-> doneOne, doneAllButtonId |-> doneAll,
      cancelButtonId |-> cancel ]

Pick(param, old) == IF param = Undefined THEN old ELSE param

\* An update that takes a null parameter for an absent one.
updateTradeAnnouncementMetadata_NullKeeps(db, tradeId, m) ==
    IF tradeId \in DOMAIN db
      THEN LET old == db[tradeId]
               Keep(param, prior) == IF param = Undefined \/ param = Null THEN prior ELSE param
               row == [old EXCEPT
                         !.announcement_channel_id = Keep(m.channelId, @),
                         !.announcement_message_id = Keep(m.messageId, @),
                         !.done_one_button_custom_id = Keep(m.doneOneButtonId, @),
                         !.done_all_button_custom_id = Keep(m.doneAllButtonId, @),
                         !.cancel_button_custom_id = Keep(m.cancelButtonId, @)]
           IN [db EXCEPT ![tradeId] = row]
      ELSE db

updateTradeAnnouncementMetadata(db, tradeId, m) ==
    IF tradeId \in DOMAIN db
      THEN LET old == db[tradeId]
               row == [old EXCEPT
                         !.announcement_channel_id = Pick(m.channelId, @),
                         !.announcement_message_id = Pick(m.messageId, @),
                         !.done_one_button_custom_id = Pick(m.doneOneButtonId, @),
                         !.done_all_button_custom_id = Pick(m.doneAllButtonId, @),
                         !.cancel_button_custom_id = Pick(m.cancelButtonId, @)]
           IN [db EXCEPT ![tradeId] = row]
      ELSE db

\* A clearing of the controls that drops the announcement pointer as well.
ClearControls_DropsPointer == MetaParams(Null, Null, Null, Null, Null)

ClearControls == MetaParams(Undefined, Undefined, Null, Null, Null)

\* SELECT ... WHERE guild_id, user_id, status ORDER BY created_at DESC: the
\* rows with their ids, newest first.
RECURSIVE listTradesByUser(_, _, _, _)
listTradesByUser(db, guildId, userId, status) ==
    IF db = <<>>
      THEN <<>>
      ELSE LET n == Len(db)
               older == listTradesByUser(SubSeq(db, 1, n - 1), guildId, userId, status)
           IN IF db[n].guild_id = guildId /\ db[n].user_id = userId /\ db[n].status = status
                THEN <<[id |-> n, row |-> db[n]]>> \o older
                ELSE older

\* ------------------------------------------------- buy orders, persistence
\* The handlers of src/commands/buy.ts read status and the two control ids of
\* a buy order and call getBuyOrderById, updateBuyOrderStatus and
\* listBuyOrdersByUser.  The buy_orders table of src/src/discord.ts holds
\* neither those columns nor those functions, so the row and the three
\* functions follow the description of the persistence layer: a status in
\* {open, fulfilled, cancelled}, the pointer and control-id shape of a trade
\* with one done/cancel pair, and a status update whose guard is part of the
\* statement.

buy_order_status == {"open", "fulfilled", "cancelled"}

NewBuyOrderRow(p) ==
    [ guild_id |-> p.guildId, user_id |-> p.userId, price |-> p.price,
      amount |-> p.amount, status |-> "open",
      announcement_channel_id |-> Null, announcement_message_id |-> Null,
      done_button_custom_id |-> Null, cancel_button_custom_id |-> Null ]

createBuyOrder(db, p) ==
    IF p.price <= 0
      THEN Result(db, Null, TRUE)
    ELSE IF p.amount # Null /\ p.amount[1] <= 0
      THEN Result(db, Null, TRUE)
    ELSE Result(Append(db, NewBuyOrderRow(p)), Some(NewBuyOrderRow(p)), FALSE)

getBuyOrderById(db, orderId) ==
    IF orderId \in DOMAIN db THEN Some(db[orderId]) ELSE Null

\* The status update without its guard.
updateBuyOrderStatus_Overwrites(db, orderId, status) ==
    IF orderId \notin DOMAIN db
      THEN Result(db, Null, FALSE)
      ELSE LET row == [db[orderId] EXCEPT !.status = status]
           IN Result([db EXCEPT ![orderId] = row], Some(row), FALSE)

\* open -> fulfilled or open -> cancelled; anything else is not applied.
updateBuyOrderStatus(db, orderId, status) ==
    IF orderId \notin DOMAIN db
      THEN Result(db, Null, FALSE)
    ELSE IF db[orderId].status # "open" \/ status \notin {"fulfilled", "cancelled"}
      THEN Result(db, Null, FALSE)
    ELSE LET row == [db[orderId] EXCEPT !.status = status]
         IN Result([db EXCEPT ![orderId] = row], Some(row), FALSE)

BuyMetaParams(channelId, messageId, doneButtonId, cancelButtonId) ==
    [ channelId |-> channelId, messageId |-> messageId,
      doneButtonId |-> doneButtonId, cancelButtonId |-> cancelButtonId ]

updateBuyOrderAnnouncementMetadata(db, orderId, m) ==
    IF orderId \notin DOMAIN db
      THEN db
      ELSE [db EXCEPT ![orderId] =
              [@ EXCEPT !.announcement_channel_id = Pick(m.channelId, @),
                        !.announcement_message_id = Pick(m.messageId, @),
                        !.done_button_custom_id = Pick(m.doneButtonId, @),
                        !.cancel_button_custom_id = Pick(m.cancelButtonId, @)]]

ClearBuyControls == BuyMetaParams(Undefined, Undefined, Null, Null)

\* The user's orders of a guild in the given status, newest first as
\* listTradesByUser lists trades.
RECURSIVE listBuyOrdersByUser(_, _, _, _)
listBuyOrdersByUser(db, guildId, userId, status) ==
    IF db = <<>>
      THEN <<>>
      ELSE LET n == Len(db)
               older == listBuyOrdersByUser(SubSeq(db, 1, n - 1), guildId, userId, status)
           IN IF db[n].guild_id = guildId /\ db[n].user_id = userId /\ db[n].status = status
                THEN <<[id |-> n, row |-> db[n]]>> \o older
                ELSE older


\* ------------------------------------------------------------ rendering

resolveStatusLabel(status) ==
    CASE status = "open" -> "Open"
      [] status = "complete" -> "Closed"
      [] status = "selled" -> "Sold"
      [] status = "cancelled" -> "Cancelled"
      [] status = "matched" -> "Matched"
      [] status = "escrow" -> "In Escrow"
      [] status = "expired" -> "Expired"
      [] OTHER -> status

\* A custom id "trade:<id>:<action>[:<scope>]" is the tuple of its fields
\* after the "trade" prefix.
DoneOneCustomId(tradeId) == <<tradeId, "done", "one">>
DoneAllCustomId(tradeId) == <<tradeId, "done", "all">>
CancelCustomId(tradeId) == <<tradeId, "cancel">>

\* ------------------------------------------------------------ the gateway
\* remote holds what Discord shows: per announcement the embed and the
\* components last applied, and the state of its forum thread (Null for a
\* message in a text channel).  The title, the owner mention and the link
\* never change and are left out.

SellKey(id) == <<"sell", id>>
BuyKey(id) == <<"buy", id>>
BuyKinds == {"buyCreate", "buyDone", "buyCancel", "buyButtonDone", "buyButtonCancel", "buyDoneAll"}
Key(r) == IF r.kind \in BuyKinds THEN BuyKey(r.tid) ELSE SellKey(r.tid)

\* The components of a message are the buttons of its one action row, each
\* a label and a custom id; no action row is the empty sequence.
Button(label, customId) == <<label, customId>>

\* !id of the code: a nullable text is falsy when it is null or empty.
Falsy(id) == id = Null \/ id = Some(<<>>)

\* The controls of a trade with a "Done all" button from one item on.
buildControlComponents_DoneAllFromOne(stock, doneOneCustomId, doneAllCustomId, cancelCustomId) ==
    IF stock <= 0
      THEN <<>>
      ELSE <<Button("Done 1 item", doneOneCustomId)>>
           \o (IF stock >= 1 /\ ~Falsy(doneAllCustomId)
                 THEN <<Button("Done all", doneAllCustomId[1])>> ELSE <<>>)
           \o <<Button("Cancel", cancelCustomId)>>

buildControlComponents(stock, doneOneCustomId, doneAllCustomId, cancelCustomId) ==
    IF stock <= 0
      THEN <<>>
      ELSE <<Button("Done 1 item", doneOneCustomId)>>
           \o (IF stock > 1 /\ ~Falsy(doneAllCustomId)
                 THEN <<Button("Done all", doneAllCustomId[1])>> ELSE <<>>)
           \o <<Button("Cancel", cancelCustomId)>>

resolveTradeComponents(trade) ==
    IF trade.status # "open" \/ trade.stock <= 0
      THEN <<>>
    ELSE IF Falsy(trade.done_one_button_custom_id) \/ Falsy(trade.cancel_button_custom_id)
      THEN <<>>
    ELSE buildControlComponents(trade.stock, trade.done_one_button_custom_id[1],
                                trade.done_all_button_custom_id,
                                trade.cancel_button_custom_id[1])

\* The same controls as the button handler builds them, its own copy of the
\* two functions above in one.
buildActiveComponents(trade) ==
    IF trade.status # "open" \/ trade.stock <= 0
      THEN <<>>
    ELSE IF Falsy(trade.done_one_button_custom_id) \/ Falsy(trade.cancel_button_custom_id)
      THEN <<>>
    ELSE <<Button("Done 1 item", trade.done_one_button_custom_id[1])>>
         \o (IF trade.stock > 1 /\ ~Falsy(trade.done_all_button_custom_id)
               THEN <<Button("Done all", trade.done_all_button_custom_id[1])>> ELSE <<>>)
         \o <<Button("Cancel", trade.cancel_button_custom_id[1])>>

buildTradeEmbed(trade, statusLabel) ==
    [ status |-> IF statusLabel = Null THEN resolveStatusLabel(trade.status)
                                       ELSE statusLabel[1],
      stock |-> trade.stock,
      discount_percent |-> trade.discount_percent ]

buildSellThreadName(trade) ==
    [ price |-> IF trade.discounted_auec # Null THEN trade.discounted_auec[1] ELSE trade.auec,
      suffix |-> IF trade.status # "open" THEN Some(resolveStatusLabel(trade.status))
                                          ELSE Null ]

shouldArchiveSellThread(status) == status \in {"selled", "complete", "cancelled"}

resolveBuyStatusLabel(status) ==
    CASE status = "open" -> "Open"
      [] status = "fulfilled" -> "Fulfilled"
      [] status = "cancelled" -> "Cancelled"
      [] OTHER -> status

BuyDoneCustomId(orderId) == <<"buy", orderId, "done">>
BuyCancelCustomId(orderId) == <<"buy", orderId, "cancel">>

buildBuyControlComponents(doneCustomId, cancelCustomId) ==
    <<Button("Mark done", doneCustomId), Button("Cancel", cancelCustomId)>>

resolveBuyComponents(order) ==
    IF order.status # "open"
      THEN <<>>
    ELSE IF Falsy(order.done_button_custom_id) \/ Falsy(order.cancel_button_custom_id)
      THEN <<>>
    ELSE buildBuyControlComponents(order.done_button_custom_id[1],
                                   order.cancel_button_custom_id[1])

buildBuyOrderEmbed(order, statusLabel) ==
    [ status |-> IF statusLabel = Null THEN resolveBuyStatusLabel(order.status)
                                       ELSE statusLabel[1],
      amount |-> order.amount,
      price |-> order.price ]

buildBuyThreadName(order) ==
    [ price |-> order.price,
      suffix |-> IF order.status \in {"fulfilled", "cancelled"}
                   THEN Some(resolveBuyStatusLabel(order.status))
                   ELSE Null ]

shouldArchiveBuyThread(status) == status \in {"fulfilled", "cancelled"}


resolveForumThreadId(announcementChannelId, tradeConfig) ==
    IF announcementChannelId = Null
      THEN Null
    ELSE IF tradeConfig.trade_channel_type # Some("forum")
      THEN Null
    ELSE IF tradeConfig.trade_channel_id # Null
            /\ announcementChannelId = tradeConfig.trade_channel_id
      THEN Null
    ELSE announcementChannelId

Message(embed, components, thread) ==
    [embed |-> embed, components |-> components, thread |-> thread]

\* PATCH of the message: components that are undefined stay as they are.
patchTradeAnnouncement(rm, key, embed, components) ==
    [rm EXCEPT ![key].embed = embed,
               ![key].components = IF components = Undefined THEN @ ELSE components]

\* PATCH of the thread: archived and locked are sent only when set.
updateForumThread(rm, key, name, archive) ==
    [rm EXCEPT ![key].thread =
        Some([name |-> name, archived |-> IF archive THEN TRUE ELSE @[1].archived])]

HasPointer(row) ==
    row.announcement_channel_id # Null /\ row.announcement_message_id # Null

\* The calls a request issues: the PATCH of a message by its channel and
\* message id, the PATCH of a thread with the name and whether archived and
\* locked are set, and the post of a new announcement.
PatchCall(row) ==
    <<"patch", row.announcement_channel_id[1], row.announcement_message_id[1]>>

ThreadCall(threadId, name, archive) == <<"thread", threadId, name, archive>>

PostCall(channelId) == <<"post", channelId>>

Issue(r, call) == [r EXCEPT !.sent = Append(@, call)]

\* The handlers that update the forum thread after the announcement; /sell
\* done and /sell discount do not.
ThreadKinds ==
    {"buttonDone", "buttonCancel", "tradeCancel",
     "buyDone", "buyCancel", "buyButtonDone", "buyButtonCancel"}

ThreadOf(r) ==
    IF r.kind \in ThreadKinds /\ ~allowOffline
      THEN resolveForumThreadId(r.updated[1].announcement_channel_id, guilds[r.guild])
      ELSE Null

\* The reply lines after the confirmation, in the order the handlers list
\* them.
ReplyNotes_NoPatchWarning(r) ==
    (IF allowOffline /\ r.updated # Null
       THEN <<"Offline mode: announcement was not updated.">> ELSE <<>>)
    \o (IF r.missing THEN <<"No stored announcement message to update.">> ELSE <<>>)
    \o (IF r.metadataError
          THEN <<"Warning: Failed to update stored control metadata.">> ELSE <<>>)
    \o (IF r.threadError
          THEN IF r.kind \in BuyKinds
                 THEN <<"Warning: Failed to update the buy order forum thread.">>
                 ELSE <<"Warning: Failed to update the trade forum thread.">>
          ELSE <<>>)

\* The reply lines with the warning about the control ids after the one about
\* the thread.
ReplyNotes_MetadataLast(r) ==
    (IF allowOffline /\ r.updated # Null
       THEN <<"Offline mode: announcement was not updated.">> ELSE <<>>)
    \o (IF r.missing THEN <<"No stored announcement message to update.">> ELSE <<>>)
    \o (IF r.patchError
          THEN IF r.kind \in BuyKinds
                 THEN <<"Warning: Failed to update the buy order announcement.">>
                 ELSE <<"Warning: Failed to update the trade announcement.">>
          ELSE <<>>)
    \o (IF r.threadError
          THEN IF r.kind \in BuyKinds
                 THEN <<"Warning: Failed to update the buy order forum thread.">>
                 ELSE <<"Warning: Failed to update the trade forum thread.">>
          ELSE <<>>)
    \o (IF r.metadataError
          THEN <<"Warning: Failed to update stored control metadata.">> ELSE <<>>)

ReplyNotes(r) ==
    (IF allowOffline /\ r.updated # Null
       THEN <<"Offline mode: announcement was not updated.">> ELSE <<>>)
    \o (IF r.missing THEN <<"No stored announcement message to update.">> ELSE <<>>)
    \o (IF r.patchError
          THEN IF r.kind \in BuyKinds
                 THEN <<"Warning: Failed to update the buy order announcement.">>
                 ELSE <<"Warning: Failed to update the trade announcement.">>
          ELSE <<>>)
    \o (IF r.metadataError
          THEN <<"Warning: Failed to update stored control metadata.">> ELSE <<>>)
    \o (IF r.threadError
          THEN IF r.kind \in BuyKinds
                 THEN <<"Warning: Failed to update the buy order forum thread.">>
                 ELSE <<"Warning: Failed to update the trade forum thread.">>
          ELSE <<>>)

\* ------------------------------------------------------ roles and access
\* The guild_roles table is the sequence of its (guild_id, role_id) rows in
\* insertion order; the admin role is a column of the guild's row.

Roles == {"r1", "r2"}
ADMINISTRATOR_BIT == 8

\* addTradeRole without the ON CONFLICT clause of its INSERT.
addTradeRole_AlwaysInserts(gr, guildId, roleId) == Append(gr, <<guildId, roleId>>)

\* ensureGuildRecord only makes sure the guild has a row; a guild without a
\* row and a guild with an unconfigured row read the same.
addTradeRole(gr, guildId, roleId) ==
    IF \E k \in DOMAIN gr : gr[k] = <<guildId, roleId>>
      THEN gr
      ELSE Append(gr, <<guildId, roleId>>)

removeTradeRole(gr, guildId, roleId) ==
    SelectSeq(gr, LAMBDA row : row # <<guildId, roleId>>)

RECURSIVE listTradeRoles(_, _)
listTradeRoles(gr, guildId) ==
    IF gr = <<>> THEN <<>>
    ELSE IF Head(gr)[1] = guildId
      THEN <<Head(gr)[2]>> \o listTradeRoles(Tail(gr), guildId)
      ELSE listTradeRoles(Tail(gr), guildId)

updateAdminRole(gs, guildId, roleId) == [gs EXCEPT ![guildId].admin_role_id = roleId]

\* member.roles is a list; member.permissions is the decimal string of a
\* bit set, modelled by its number, or a string BigInt cannot parse.
Unparsable == <<0, 0>>

memberHasRole(member, roleId) ==
    \E k \in DOMAIN member.roles : member.roles[k] = roleId

memberHasAdministrator(member) ==
    /\ member.permissions # Null
    /\ member.permissions # Unparsable
    /\ (member.permissions[1] \div ADMINISTRATOR_BIT) % 2 = 1

Granted == [ok |-> TRUE, response |-> <<>>]
Denied(text) == [ok |-> FALSE, response |-> text]

\* ensureAdminAccess that consults the moderator roles whatever the option.
ensureAdminAccess_ModeratorsAlways(interaction, allowModeratorRoles, gs, gr) ==
    IF interaction.guild_id = Null \/ interaction.member = Null
      THEN Denied(<<"This command can only be used inside a guild.">>)
      ELSE LET member == interaction.member[1]
               guildId == interaction.guild_id[1]
               permissionsOk == memberHasAdministrator(member)
               adminRoleId == gs[guildId].admin_role_id
               roleOk == IF adminRoleId # Null THEN memberHasRole(member, adminRoleId[1])
                                               ELSE FALSE
               moderatorRoles == listTradeRoles(gr, guildId)
               moderatorOk ==
                   /\ ~roleOk
                   /\ \E k \in DOMAIN moderatorRoles : memberHasRole(member, moderatorRoles[k])
           IN IF permissionsOk \/ roleOk \/ moderatorOk
                THEN Granted
                ELSE Denied(<<"You must have the administrator role to use this command.">>)

ensureAdminAccess(interaction, allowModeratorRoles, gs, gr) ==
    IF interaction.guild_id = Null \/ interaction.member = Null
      THEN Denied(<<"This command can only be used inside a guild.">>)
      ELSE LET member == interaction.member[1]
               guildId == interaction.guild_id[1]
               permissionsOk == memberHasAdministrator(member)
               adminRoleId == gs[guildId].admin_role_id
               roleOk == IF adminRoleId # Null THEN memberHasRole(member, adminRoleId[1])
                                               ELSE FALSE
               moderatorRoles == listTradeRoles(gr, guildId)
               moderatorOk ==
                   /\ ~roleOk /\ allowModeratorRoles
                   /\ \E k \in DOMAIN moderatorRoles : memberHasRole(member, moderatorRoles[k])
           IN IF permissionsOk \/ roleOk \/ moderatorOk
                THEN Granted
                ELSE Denied(<<"You must have the administrator role to use this command.">>)

\* ------------------------------------------------------------- requests
\* A request is one invocation of a handler: its inputs, the locals that
\* live across its awaits (trade: the row it read or inserted, updated: the
\* row its transition returned), where it is (pc) and, once it has
\* returned, its reply.  sent lists the calls to Discord the request has
\* issued, in their order, whether they succeeded or not.

\* The lists a bulk handler collects for its summary; attempted is the ids it
\* called the transition for, in the order of the calls.
NoSummary ==
    [ attempted |-> <<>>, updated |-> <<>>, updateFailures |-> <<>>,
      missing |-> <<>>, patchFailures |-> <<>>, metadataFailures |-> <<>>,
      threadFailures |-> <<>> ]

NewReq(kind, guild, user, tradeId) ==
    [ kind |-> kind, pc |-> "done", guild |-> guild, user |-> user,
      tid |-> tradeId, amount |-> 0, percent |-> Null, reason |-> Null,
      trade |-> Null, updated |-> Null, reply |-> <<>>,
      missing |-> FALSE, patchError |-> FALSE, metadataError |-> FALSE,
      threadError |-> FALSE, notes |-> <<>>, sent |-> <<>>,
      list |-> <<>>, at |-> 0, summary |-> NoSummary ]

\* The callers: u1 is an ordinary member; u2 carries the administrator bit,
\* the role r1 and the role r2.
MemberOf(u) ==
    IF u = "u2" THEN [permissions |-> Some(ADMINISTRATOR_BIT), roles |-> <<"r1", "r2">>]
                ELSE [permissions |-> Some(0), roles |-> <<>>]

InteractionOf(g, u) == [guild_id |-> Some(g), member |-> Some(MemberOf(u)), user |-> u]

\* An owner check that lets a privileged member through.
NotOwner_UnlessPrivileged(record, interaction) ==
    /\ record.user_id # interaction.user
    /\ ~ensureAdminAccess(interaction, TRUE, guilds, guildRoles).ok

\* The owner check of the owner-only handlers: the caller's id against the
\* record's user_id, nothing else.
NotOwner(record, interaction) == record.user_id # interaction.user

\* An early return with an explanatory reply.
Reject(r, text) == [r EXCEPT !.pc = "done", !.reply = text]

\* The handler returns: its reply stays, the row its transition returned
\* goes with it.
Finish(r, text) ==
    [r EXCEPT !.pc = "done", !.reply = text, !.notes = ReplyNotes(r), !.updated = Null]

\* After the transition and the control-id clear: patch the announcement
\* when the bot is online and the row points at one, then the thread.
AfterPatch(r, text) ==
    IF ThreadOf(r) # Null THEN [r EXCEPT !.pc = "thread", !.reply = text]
                          ELSE Finish(r, text)

\* The same without a look at allowOffline.
Announce_PatchesOffline(r, text) ==
    IF HasPointer(r.updated[1])
      THEN [r EXCEPT !.pc = "patch", !.reply = text]
    ELSE AfterPatch([r EXCEPT !.missing = TRUE], text)

Announce(r, text) ==
    IF allowOffline
      THEN Finish(r, text)
    ELSE IF HasPointer(r.updated[1])
      THEN [r EXCEPT !.pc = "patch", !.reply = text]
    ELSE AfterPatch([r EXCEPT !.missing = TRUE], text)

Launch(r) ==
    /\ Len(reqs) < MaxReqs
    /\ reqs' = Append(reqs, r)

\* The inputs of the requests of Spec: one seller in one configured guild,
\* every stock value a create request can carry, every amount and the
\* percents 0 (remove) and 10.
ActiveGuilds == {"g1"}
ActiveUsers == {"u1"}
AuecInputs == {999}
StockInputs == (-1) .. MaxStock
AmountInputs == 1 .. MaxStock
PercentInputs == {0, 10}
AccessInputs == {TRUE}
TradeIds == 1 .. MaxTrades

\* /sell create, up to and including the INSERT.
SellCreateStart(g, u, auec, stock) ==
    LET r == NewReq("sellCreate", g, u, 0)
        p == [guildId |-> g, userId |-> u, auec |-> auec, stock |-> stock,
              status |-> Null]
        res == createTrade(trades, p)
    IN IF auec = 0
         THEN /\ Launch(Reject(r, <<"Title and price are required.">>))
              /\ UNCHANGED trades
         ELSE IF guilds[g].trade_channel_type = Null
                THEN /\ Launch(Reject(r, <<"No trade channel is configured.">>))
                     /\ UNCHANGED trades
                ELSE /\ Len(trades) < MaxTrades
                     /\ trades' = res.db
                     /\ Launch([r EXCEPT !.pc = "controls", !.tid = Len(res.db),
                                         !.trade = res.row])

\* The control ids with a "done all" button for every trade.
CreateControlIds_AlwaysDoneAll(trade, tradeId) ==
    MetaParams(Undefined, Undefined,
               Some(DoneOneCustomId(tradeId)),
               Some(DoneAllCustomId(tradeId)),
               Some(CancelCustomId(tradeId)))

\* The control ids /sell create computes from the inserted row.
CreateControlIds(trade, tradeId) ==
    MetaParams(Undefined, Undefined,
               Some(DoneOneCustomId(tradeId)),
               IF trade.stock > 1 THEN Some(DoneAllCustomId(tradeId)) ELSE Null,
               Some(CancelCustomId(tradeId)))

\* /sell create: store the control ids of the new trade.
SellCreateControls(i) ==
    LET r == reqs[i]
        m == CreateControlIds(r.trade[1], r.tid)
    IN /\ r.kind = "sellCreate" /\ r.pc = "controls"
       /\ trades' = updateTradeAnnouncementMetadata(trades, r.tid, m)
       /\ reqs' = [reqs EXCEPT ![i] =
                     IF allowOffline THEN Finish(r, <<"created", "offline">>)
                                     ELSE [r EXCEPT !.pc = "deliver"]]

\* The announcement /sell create posts: the embed of the inserted row with
\* the label "Open", the buttons of the new control ids and, in a forum, the
\* thread it opens.
CreatedMessage(trade, tradeId, channel) ==
    LET ids == CreateControlIds(trade, tradeId)
    IN Message(buildTradeEmbed(trade, Some("Open")),
               buildControlComponents(trade.stock, ids.doneOneButtonId[1], ids.doneAllButtonId,
                                      ids.cancelButtonId[1]),
               IF channel = Some("thread")
                 THEN Some([name |-> buildSellThreadName(trade), archived |-> FALSE])
                 ELSE Null)

\* /sell create: post the announcement and, when that worked, store the
\* pointer to it.  A text channel yields the channel itself, a forum yields
\* the new thread.
SellCreateDeliver(i, ok) ==
    LET r == reqs[i]
        channel == IF guilds[r.guild].trade_channel_type = Some("forum")
                     THEN Some("thread") ELSE guilds[r.guild].trade_channel_id
        m == MetaParams(channel, Some("message"), Undefined, Undefined, Undefined)
        posted == Issue(r, PostCall(guilds[r.guild].trade_channel_id[1]))
    IN /\ r.kind = "sellCreate" /\ r.pc = "deliver"
       /\ IF ok
            THEN /\ trades' = updateTradeAnnouncementMetadata(trades, r.tid, m)
                 /\ remote' = (SellKey(r.tid) :> CreatedMessage(r.trade[1], r.tid, channel)) @@ remote
                 /\ reqs' = [reqs EXCEPT ![i] = Finish(posted, <<"created", "announced">>)]
            ELSE /\ UNCHANGED <<trades, remote>>
                 /\ reqs' = [reqs EXCEPT ![i] = Finish(posted, <<"created", "Warning: Failed to post the trade announcement.">>)]

\* The checks /sell done, /sell discount and the buttons share: the trade
\* exists in the caller's guild.
Missing(trade, g) == trade = Null \/ trade[1].guild_id # g

AlreadyReply(trade) == <<"is already", resolveStatusLabel(trade.status)>>

UnableReply == <<"Unable to mark as done. Check the available stock and try again.">>

\* /sell done <id> [amount]: read the trade and validate.
SellDoneStart(g, u, tradeId, amount) ==
    LET r == [NewReq("sellDone", g, u, tradeId) EXCEPT !.amount = amount]
        trade == getTradeById(trades, tradeId)
    IN /\ UNCHANGED trades
       /\ Launch(
            IF amount <= 0
              THEN Reject(r, <<"Provide a valid amount of units to mark as done (minimum 1).">>)
            ELSE IF Missing(trade, g)
              THEN Reject(r, <<"does not exist for this guild.">>)
            ELSE IF NotOwner(trade[1], InteractionOf(g, u))
              THEN Reject(r, <<"You can only manage your own trades.">>)
            ELSE IF trade[1].status # "open"
              THEN Reject(r, AlreadyReply(trade[1]))
            ELSE IF trade[1].stock <= 0
              THEN Reject(r, <<"has no remaining stock.">>)
            ELSE [r EXCEPT !.pc = "reduce", !.trade = trade])

\* A button press: handleTradeComponent reads the trade, then
\* handleDoneAction or handleCancelAction validates it.
doneActionChecks(r, trade, customId, mode) ==
    LET expectedCustomId == IF mode = "all" THEN trade.done_all_button_custom_id
                                            ELSE trade.done_one_button_custom_id
    IN IF expectedCustomId = Null
         THEN Reject(r, <<"This trade action is no longer valid.">>)
       ELSE IF expectedCustomId # Some(customId)
         THEN Reject(r, <<"This trade action is no longer valid.">>)
       ELSE IF trade.status # "open"
         THEN Reject(r, AlreadyReply(trade))
       ELSE IF trade.stock <= 0
         THEN Reject(r, <<"has no remaining stock.">>)
       ELSE [r EXCEPT !.pc = "reduce", !.trade = Some(trade),
                      !.amount = IF mode = "all" THEN trade.stock ELSE 1]

cancelActionChecks(r, trade, customId) ==
    IF trade.cancel_button_custom_id # Null /\ trade.cancel_button_custom_id # Some(customId)
      THEN Reject(r, <<"This trade action is no longer valid.">>)
    ELSE IF trade.status = "cancelled"
      THEN Reject(r, <<"is already", "cancelled">>)
    ELSE IF trade.status # "open"
      THEN Reject(r, AlreadyReply(trade))
    ELSE [r EXCEPT !.pc = "status", !.trade = Some(trade)]

CustomIds ==
    UNION { {DoneOneCustomId(t), DoneAllCustomId(t), CancelCustomId(t)} : t \in TradeIds }

TradeComponentStart(g, u, customId) ==
    LET tradeId == customId[1]
        action == customId[2]
        scope == IF Len(customId) >= 3 THEN customId[3] ELSE ""
        r == NewReq(IF action = "done" THEN "buttonDone" ELSE "buttonCancel", g, u, tradeId)
        trade == getTradeById(trades, tradeId)
    IN /\ UNCHANGED trades
       /\ Launch(
            IF Missing(trade, g)
              THEN Reject(r, <<"does not exist for this guild.">>)
            ELSE IF NotOwner(trade[1], InteractionOf(g, u))
              THEN Reject(r, <<"Only the seller can manage this trade.">>)
            ELSE IF action = "done"
              THEN doneActionChecks(r, trade[1], customId, IF scope = "all" THEN "all" ELSE "one")
            ELSE IF action = "cancel"
              THEN cancelActionChecks(r, trade[1], customId)
            ELSE Reject(r, <<"Unsupported trade component action.">>))

\* A done handler that confirms a decrement the persistence layer refused.
DoneReduce_AcknowledgesRefused(i) ==
    LET r == reqs[i]
        res == reduceTradeStock(trades, r.tid, r.amount)
    IN /\ r.kind \in {"sellDone", "buttonDone"} /\ r.pc = "reduce"
       /\ trades' = res.db
       /\ reqs' = [reqs EXCEPT ![i] =
                     IF res.row = Null
                       THEN Reject(r, <<"Marked as done", "Remaining stock">>)
                     ELSE IF res.row[1].status # "open"
                       THEN [r EXCEPT !.pc = "clear", !.updated = res.row]
                     ELSE Announce([r EXCEPT !.updated = res.row],
                                   <<"Marked as done", "Remaining stock">>)]

\* A done handler that clears the control ids after every successful
\* decrement.
DoneReduce_AlwaysClears(i) ==
    LET r == reqs[i]
        res == reduceTradeStock(trades, r.tid, r.amount)
    IN /\ r.kind \in {"sellDone", "buttonDone"} /\ r.pc = "reduce"
       /\ trades' = res.db
       /\ reqs' = [reqs EXCEPT ![i] =
                     IF res.row = Null
                       THEN Reject(r, UnableReply)
                       ELSE [r EXCEPT !.pc = "clear", !.updated = res.row]]

\* A done handler that answers a refused decrement by reading the stock
\* again and retrying with it.
DoneReduce_RetriesWithFreshStock(i) ==
    LET r == reqs[i]
        res == reduceTradeStock(trades, r.tid, r.amount)
    IN /\ r.kind \in {"sellDone", "buttonDone"} /\ r.pc = "reduce"
       /\ trades' = res.db
       /\ reqs' = [reqs EXCEPT ![i] =
                     IF res.row = Null
                       THEN IF r.tid \in DOMAIN trades /\ trades[r.tid].stock # r.amount
                              THEN [r EXCEPT !.amount = trades[r.tid].stock]
                              ELSE Reject(r, UnableReply)
                     ELSE IF res.row[1].status # "open"
                       THEN [r EXCEPT !.pc = "clear", !.updated = res.row]
                     ELSE Announce([r EXCEPT !.updated = res.row],
                                   <<"Marked as done", "Remaining stock">>)]

\* The guarded decrement of /sell done and of the done buttons, and what
\* the handler does with its answer.
DoneReduce(i) ==
    LET r == reqs[i]
        res == reduceTradeStock(trades, r.tid, r.amount)
    IN /\ r.kind \in {"sellDone", "buttonDone"} /\ r.pc = "reduce"
       /\ trades' = res.db
       /\ reqs' = [reqs EXCEPT ![i] =
                     IF res.row = Null
                       THEN Reject(r, UnableReply)
                     ELSE IF res.row[1].status # "open"
                       THEN [r EXCEPT !.pc = "clear", !.updated = res.row]
                     ELSE Announce([r EXCEPT !.updated = res.row],
                                   <<"Marked as done", "Remaining stock">>)]

\* Clearing the stored control ids once the trade has left open; when the
\* statement throws, the handler keeps the error for its reply and goes on.
ClearTradeControls(i, ok) ==
    LET r == [reqs[i] EXCEPT !.metadataError = ~ok]
    IN /\ r.pc = "clear"
       /\ trades' = IF ok THEN updateTradeAnnouncementMetadata(trades, r.tid, ClearControls)
                          ELSE trades
       /\ reqs' = [reqs EXCEPT ![i] =
                     Announce(r, IF r.kind \in {"sellDone", "buttonDone"}
                                   THEN <<"Marked as done", "Trade is now marked as sold out.">>
                                   ELSE <<"has been cancelled.">>)]

\* /trade cancel <id> <reason>: the access check, the read and the
\* validation.
TradeCancelStart(g, u, access, tradeId) ==
    LET r == [NewReq("tradeCancel", g, u, tradeId) EXCEPT !.reason = Some("reason")]
        existing == getTradeById(trades, tradeId)
    IN /\ UNCHANGED trades
       /\ Launch(
            IF ~access
              THEN Reject(r, <<"You must have the administrator role to use this command.">>)
            ELSE IF Missing(existing, g)
              THEN Reject(r, <<"does not exist for this guild.">>)
            ELSE IF existing[1].status = "cancelled"
              THEN Reject(r, <<"is already", "cancelled">>)
            ELSE [r EXCEPT !.pc = "status", !.trade = existing])

\* The status write of both cancels.
CancelUpdateStatus(i) ==
    LET r == reqs[i]
        res == updateTradeStatus(trades, r.tid, "cancelled", r.reason)
    IN /\ r.kind \in {"buttonCancel", "tradeCancel"} /\ r.pc = "status"
       /\ trades' = res.db
       /\ reqs' = [reqs EXCEPT ![i] =
                     IF res.row = Null
                       THEN Reject(r, <<"Failed to update the trade status. Try again in a moment.">>)
                       ELSE [r EXCEPT !.pc = "clear", !.updated = res.row]]

\* /sell discount <id> <percent>: read and validate.
SellDiscountStart(g, u, tradeId, percentOption) ==
    LET r == NewReq("sellDiscount", g, u, tradeId)
        trade == getTradeById(trades, tradeId)
    IN /\ UNCHANGED trades
       /\ Launch(
            IF percentOption < MinPercent \/ percentOption > MaxPercent
              THEN Reject(r, <<"Provide a discount percentage between 0 and 95.">>)
            ELSE IF Missing(trade, g)
              THEN Reject(r, <<"does not exist for this guild.">>)
            ELSE IF NotOwner(trade[1], InteractionOf(g, u))
              THEN Reject(r, <<"You can only manage your own trades.">>)
            ELSE IF trade[1].status # "open"
              THEN Reject(r, AlreadyReply(trade[1]))
            ELSE [r EXCEPT !.pc = "discount", !.trade = trade,
                           !.percent = IF percentOption = 0 THEN Null
                                                            ELSE Some(percentOption)])

SellDiscountUpdate(i) ==
    LET r == reqs[i]
        res == updateTradeDiscount(trades, r.tid, r.percent)
    IN /\ r.kind = "sellDiscount" /\ r.pc = "discount"
       /\ trades' = res.db
       /\ reqs' = [reqs EXCEPT ![i] =
                     IF res.row = Null
                       THEN Reject(r, <<"Unable to update the discount.">>)
                       ELSE Announce([r EXCEPT !.updated = res.row],
                                     IF r.percent = Null THEN <<"Removed the discount">>
                                                         ELSE <<"discounted">>)]

\* A patch rendered from the row the handler read before its update.
PatchContent_FromReadRow(r) ==
    LET updated == r.trade[1]
    IN IF r.kind \in BuyKinds
         THEN [embed |-> buildBuyOrderEmbed(updated, Null), components |-> <<>>]
       ELSE IF r.kind \in {"buttonCancel", "tradeCancel"}
         THEN [embed |-> buildTradeEmbed(updated, Some("Cancelled")), components |-> <<>>]
       ELSE [embed |-> buildTradeEmbed(updated, Null), components |-> Undefined]

\* What a handler sends to patch the announcement of the row its
\* transition returned.
PatchContent(r) ==
    LET updated == r.updated[1]
    IN IF r.kind \in BuyKinds
         THEN [embed |-> buildBuyOrderEmbed(updated, Null), components |-> <<>>]
       ELSE IF r.kind = "sellDone"
         THEN [embed |-> buildTradeEmbed(updated, Null),
               components |-> IF updated.status = "open"
                                THEN resolveTradeComponents(updated) ELSE <<>>]
       ELSE IF r.kind = "buttonDone"
         THEN [embed |-> buildTradeEmbed(updated, Null),
               components |-> IF updated.status = "open"
                                THEN buildActiveComponents(updated) ELSE <<>>]
       ELSE IF r.kind \in {"buttonCancel", "tradeCancel"}
         THEN [embed |-> buildTradeEmbed(updated, Some("Cancelled")), components |-> <<>>]
       ELSE [embed |-> buildTradeEmbed(updated, Null), components |-> Undefined]

\* The awaited PATCH of the announcement; a failure is caught and kept for
\* the reply.
PatchAnnouncement(i, ok) ==
    LET r == Issue(reqs[i], PatchCall(reqs[i].updated[1]))
        c == PatchContent(r)
    IN /\ reqs[i].pc = "patch"
       /\ remote' = IF ok THEN patchTradeAnnouncement(remote, Key(r), c.embed, c.components)
                          ELSE remote
       /\ reqs' = [reqs EXCEPT ![i] =
                     AfterPatch([r EXCEPT !.patchError = ~ok], r.reply)]
       /\ UNCHANGED trades

\* The awaited PATCH of the forum thread.
SyncForumThread(i, ok) ==
    LET updated == reqs[i].updated[1]
        r == Issue(reqs[i],
                   IF reqs[i].kind \in BuyKinds
                     THEN ThreadCall(ThreadOf(reqs[i])[1], buildBuyThreadName(updated),
                                     shouldArchiveBuyThread(updated.status))
                     ELSE ThreadCall(ThreadOf(reqs[i])[1], buildSellThreadName(updated),
                                     shouldArchiveSellThread(updated.status)))
    IN /\ reqs[i].pc = "thread"
       /\ remote' = IF ~ok
                       THEN remote
                     ELSE IF r.kind \in BuyKinds
                       THEN updateForumThread(remote, Key(r), buildBuyThreadName(updated),
                                              shouldArchiveBuyThread(updated.status))
                     ELSE updateForumThread(remote, Key(r), buildSellThreadName(updated),
                                            shouldArchiveSellThread(updated.status))
       /\ reqs' = [reqs EXCEPT ![i] = Finish([r EXCEPT !.threadError = ~ok], r.reply)]
       /\ UNCHANGED trades

\* --------------------------------------------------- buy orders, handlers
\* A buy request keeps the order it read in the field trade and the row its
\* status update returned in the field updated.

PriceInputs == {0, 200}
BuyAmountInputs == {Null, Some(0), Some(1)}
OrderIds == 1 .. MaxOrders

\* /buy create without the check of the trade channel.
BuyCreateStart_SkipsChannelCheck(g, u, price, amount) ==
    LET r == NewReq("buyCreate", g, u, 0)
        p == [guildId |-> g, userId |-> u, price |-> price, amount |-> amount]
        res == createBuyOrder(orders, p)
    IN IF price <= 0
         THEN /\ Launch(Reject(r, <<"Provide a valid price greater than 0.">>))
              /\ UNCHANGED orders
       ELSE IF amount # Null /\ amount[1] <= 0
         THEN /\ Launch(Reject(r, <<"If provided, the amount must be a positive integer.">>))
              /\ UNCHANGED orders
       ELSE /\ Len(orders) < MaxOrders
            /\ orders' = res.db
            /\ Launch([r EXCEPT !.pc = "buyControls", !.tid = Len(res.db),
                                !.trade = res.row])

\* /buy create, up to and including the INSERT.
BuyCreateStart(g, u, price, amount) ==
    LET r == NewReq("buyCreate", g, u, 0)
        p == [guildId |-> g, userId |-> u, price |-> price, amount |-> amount]
        res == createBuyOrder(orders, p)
        tradeConfig == guilds[g]
    IN IF price <= 0
         THEN /\ Launch(Reject(r, <<"Provide a valid price greater than 0.">>))
              /\ UNCHANGED orders
       ELSE IF amount # Null /\ amount[1] <= 0
         THEN /\ Launch(Reject(r, <<"If provided, the amount must be a positive integer.">>))
              /\ UNCHANGED orders
       ELSE IF tradeConfig.trade_channel_id = Null \/ tradeConfig.trade_channel_type = Null
         THEN /\ Launch(Reject(r, <<"No trade channel configured.">>))
              /\ UNCHANGED orders
       ELSE /\ Len(orders) < MaxOrders
            /\ orders' = res.db
            /\ Launch([r EXCEPT !.pc = "buyControls", !.tid = Len(res.db),
                                !.trade = res.row])

BuyControlIds(orderId) ==
    BuyMetaParams(Undefined, Undefined,
                  Some(BuyDoneCustomId(orderId)), Some(BuyCancelCustomId(orderId)))

\* /buy create: store the control ids of the new order.
BuyCreateControls(i) ==
    LET r == reqs[i]
    IN /\ r.kind = "buyCreate" /\ r.pc = "buyControls"
       /\ orders' = updateBuyOrderAnnouncementMetadata(orders, r.tid, BuyControlIds(r.tid))
       /\ reqs' = [reqs EXCEPT ![i] =
                     IF allowOffline THEN Finish(r, <<"created", "offline">>)
                                     ELSE [r EXCEPT !.pc = "buyDeliver"]]

\* The announcement /buy create posts.
CreatedBuyMessage(order, orderId, channel) ==
    Message(buildBuyOrderEmbed(order, Some("Open")),
            buildBuyControlComponents(BuyDoneCustomId(orderId), BuyCancelCustomId(orderId)),
            IF channel = Some("thread")
              THEN Some([name |-> buildBuyThreadName(order), archived |-> FALSE])
              ELSE Null)

\* /buy create: post the announcement and, when that worked, store the
\* pointer to it.
BuyCreateDeliver(i, ok) ==
    LET r == reqs[i]
        channel == IF guilds[r.guild].trade_channel_type = Some("forum")
                     THEN Some("thread") ELSE guilds[r.guild].trade_channel_id
        m == BuyMetaParams(channel, Some("message"), Undefined, Undefined)
        posted == Issue(r, PostCall(guilds[r.guild].trade_channel_id[1]))
    IN /\ r.kind = "buyCreate" /\ r.pc = "buyDeliver"
       /\ IF ok
            THEN /\ orders' = updateBuyOrderAnnouncementMetadata(orders, r.tid, m)
                 /\ remote' = (BuyKey(r.tid) :> CreatedBuyMessage(r.trade[1], r.tid, channel)) @@ remote
                 /\ reqs' = [reqs EXCEPT ![i] = Finish(posted, <<"created", "announced">>)]
            ELSE /\ UNCHANGED <<orders, remote>>
                 /\ reqs' = [reqs EXCEPT ![i] = Finish(posted, <<"created", "Warning: Failed to post the buy order announcement.">>)]

BuyAlreadyReply(order) == <<"is already", resolveBuyStatusLabel(order.status)>>

\* /buy done <id> and /buy cancel <id>: read the order and validate.
BuyCommandStart(kind, g, u, orderId) ==
    LET r == NewReq(kind, g, u, orderId)
        order == getBuyOrderById(orders, orderId)
    IN /\ UNCHANGED orders
       /\ Launch(
            IF Missing(order, g)
              THEN Reject(r, <<"does not exist for this guild.">>)
            ELSE IF NotOwner(order[1], InteractionOf(g, u))
              THEN Reject(r, <<"You can only manage your own buy orders.">>)
            ELSE IF order[1].status # "open"
              THEN Reject(r, BuyAlreadyReply(order[1]))
            ELSE [r EXCEPT !.pc = "buyStatus", !.trade = order])

BuyDoneStart(g, u, orderId) == BuyCommandStart("buyDone", g, u, orderId)

BuyCancelStart(g, u, orderId) == BuyCommandStart("buyCancel", g, u, orderId)

\* A button of a buy order: handleBuyComponent reads the order, then
\* handleDoneAction or handleCancelAction validates it.
buyActionChecks(r, order, customId, expectedCustomId, target) ==
    IF expectedCustomId # Null /\ expectedCustomId # Some(customId)
      THEN Reject(r, <<"This buy order action is no longer valid.">>)
    ELSE IF order.status = target
      THEN Reject(r, <<"is already", resolveBuyStatusLabel(target)>>)
    ELSE IF order.status # "open"
      THEN Reject(r, BuyAlreadyReply(order))
    ELSE [r EXCEPT !.pc = "buyStatus", !.trade = Some(order)]

BuyCustomIds ==
    UNION { {BuyDoneCustomId(o), BuyCancelCustomId(o)} : o \in OrderIds }

BuyComponentStart(g, u, customId) ==
    LET orderId == customId[2]
        action == customId[3]
        r == NewReq(IF action = "done" THEN "buyButtonDone" ELSE "buyButtonCancel",
                    g, u, orderId)
        order == getBuyOrderById(orders, orderId)
    IN /\ UNCHANGED orders
       /\ Launch(
            IF Missing(order, g)
              THEN Reject(r, <<"does not exist for this guild.">>)
            ELSE IF NotOwner(order[1], InteractionOf(g, u))
              THEN Reject(r, <<"Only the buyer can manage this order.">>)
            ELSE IF action = "done"
              THEN buyActionChecks(r, order[1], customId,
                                   order[1].done_button_custom_id, "fulfilled")
            ELSE IF action = "cancel"
              THEN buyActionChecks(r, order[1], customId,
                                   order[1].cancel_button_custom_id, "cancelled")
            ELSE Reject(r, <<"Unsupported buy order component action.">>))

BuyTarget(r) ==
    IF r.kind \in {"buyDone", "buyButtonDone"} THEN "fulfilled" ELSE "cancelled"

BuyRejectedReply(r) ==
    CASE r.kind = "buyDone" -> <<"Unable to mark buy order as done. Try again in a moment.">>
      [] r.kind = "buyButtonDone" -> <<"Failed to update the buy order. Try again in a moment.">>
      [] OTHER -> <<"Failed to update the buy order status. Try again in a moment.">>

\* The status write of /buy done, /buy cancel and the two buttons.
BuyUpdateStatus(i) ==
    LET r == reqs[i]
        res == updateBuyOrderStatus(orders, r.tid, BuyTarget(r))
    IN /\ r.kind \in {"buyDone", "buyCancel", "buyButtonDone", "buyButtonCancel"}
       /\ r.pc = "buyStatus"
       /\ orders' = res.db
       /\ reqs' = [reqs EXCEPT ![i] =
                     IF res.row = Null
                       THEN Reject(r, BuyRejectedReply(r))
                       ELSE [r EXCEPT !.pc = "buyClear", !.updated = res.row]]

\* clearBuyControls, then the announcement.
BuyClearControls(i, ok) ==
    LET r == [reqs[i] EXCEPT !.metadataError = ~ok]
    IN /\ r.pc = "buyClear"
       /\ orders' = IF ok THEN updateBuyOrderAnnouncementMetadata(orders, r.tid, ClearBuyControls)
                          ELSE orders
       /\ reqs' = [reqs EXCEPT ![i] =
                     Announce(r, IF BuyTarget(r) = "fulfilled"
                                   THEN <<"marked as fulfilled.">>
                                   ELSE <<"has been cancelled.">>)]


\* ------------------------------------------------------- bulk operations
\* /buy done todos and /sell done todos: the list is read once, then every
\* record of it is taken in turn.  r.at is the position in r.list, r.tid the
\* id of the record at that position.

\* The loop moves to the next record, or the handler returns its summary.
NextRecord(r) ==
    IF r.at < Len(r.list)
      THEN [r EXCEPT !.at = r.at + 1, !.tid = r.list[r.at + 1].id, !.updated = Null,
                     !.pc = IF r.kind = "buyDoneAll" THEN "allStatus" ELSE "allReduce"]
      ELSE [r EXCEPT !.pc = "done", !.updated = Null, !.tid = 0,
                     !.reply = <<"Updated", Len(r.summary.updated)>>]

\* The lines of the summary that name ids.
ReportedIds(r) ==
    { r.summary.updated[k] : k \in DOMAIN r.summary.updated }
    \cup { r.summary.updateFailures[k] : k \in DOMAIN r.summary.updateFailures }
    \cup { r.summary.patchFailures[k] : k \in DOMAIN r.summary.patchFailures }
    \cup { r.summary.metadataFailures[k] : k \in DOMAIN r.summary.metadataFailures }
    \cup { r.summary.threadFailures[k] : k \in DOMAIN r.summary.threadFailures }

Note(r, field) == [r EXCEPT !.summary[field] = Append(@, r.tid)]

BuyDoneAllStart(g, u) ==
    LET r == NewReq("buyDoneAll", g, u, 0)
        openOrders == listBuyOrdersByUser(orders, g, u, "open")
    IN /\ UNCHANGED orders
       /\ Launch(IF openOrders = <<>>
                   THEN Reject(r, <<"You have no open buy orders to update.">>)
                   ELSE NextRecord([r EXCEPT !.list = openOrders]))

\* After the control ids: the announcement, the thread, the next record.
BuyAllAfterPatch(r) ==
    IF ~allowOffline
       /\ resolveForumThreadId(r.updated[1].announcement_channel_id, guilds[r.guild]) # Null
      THEN [r EXCEPT !.pc = "allThread"]
      ELSE NextRecord(r)

BuyAllAfterClear(r) ==
    IF allowOffline
      THEN NextRecord(r)
    ELSE IF HasPointer(r.updated[1])
      THEN [r EXCEPT !.pc = "allPatch"]
    ELSE BuyAllAfterPatch(Note(r, "missing"))

BuyDoneAllStatus(i) ==
    LET r == reqs[i]
        res == updateBuyOrderStatus(orders, r.tid, "fulfilled")
        tried == Note(r, "attempted")
    IN /\ r.kind = "buyDoneAll" /\ r.pc = "allStatus"
       /\ orders' = res.db
       /\ reqs' = [reqs EXCEPT ![i] =
                     IF res.row = Null
                       THEN NextRecord(tried)
                       ELSE [Note(tried, "updated") EXCEPT !.pc = "allClear",
                                                           !.updated = res.row]]

BuyDoneAllClear(i, ok) ==
    LET r == reqs[i]
    IN /\ r.kind = "buyDoneAll" /\ r.pc = "allClear"
       /\ orders' = IF ok THEN updateBuyOrderAnnouncementMetadata(orders, r.tid, ClearBuyControls)
                          ELSE orders
       /\ reqs' = [reqs EXCEPT ![i] =
                     BuyAllAfterClear(IF ok THEN r ELSE Note(r, "metadataFailures"))]

BuyDoneAllPatch(i, ok) ==
    LET r == Issue(reqs[i], PatchCall(reqs[i].updated[1]))
        c == PatchContent(r)
    IN /\ reqs[i].kind = "buyDoneAll" /\ reqs[i].pc = "allPatch"
       /\ remote' = IF ok THEN patchTradeAnnouncement(remote, Key(r), c.embed, c.components)
                          ELSE remote
       /\ reqs' = [reqs EXCEPT ![i] =
                     BuyAllAfterPatch(IF ok THEN r ELSE Note(r, "patchFailures"))]
       /\ UNCHANGED orders

BuyDoneAllThread(i, ok) ==
    LET updated == reqs[i].updated[1]
        threadId == resolveForumThreadId(updated.announcement_channel_id, guilds[reqs[i].guild])
        r == Issue(reqs[i], ThreadCall(threadId[1], buildBuyThreadName(updated),
                                       shouldArchiveBuyThread(updated.status)))
    IN /\ reqs[i].kind = "buyDoneAll" /\ reqs[i].pc = "allThread"
       /\ remote' = IF ok THEN updateForumThread(remote, Key(r), buildBuyThreadName(updated),
                                                 shouldArchiveBuyThread(updated.status))
                          ELSE remote
       /\ reqs' = [reqs EXCEPT ![i] =
                     NextRecord(IF ok THEN r ELSE Note(r, "threadFailures"))]
       /\ UNCHANGED orders

\* The records of the list /sell done todos does not skip, from position k on.
RECURSIVE SkipToStocked(_, _)
SkipToStocked(list, k) ==
    IF k > Len(list) THEN k
    ELSE IF list[k].row.stock <= 0 THEN SkipToStocked(list, k + 1)
    ELSE k

\* The loop of /sell done todos: records with no stock are passed over.
NextStocked(r) ==
    LET k == SkipToStocked(r.list, r.at + 1)
    IN NextRecord([r EXCEPT !.at = k - 1])

SellDoneAllStart(g, u) ==
    LET r == NewReq("sellDoneAll", g, u, 0)
        openTrades == listTradesByUser(trades, g, u, "open")
    IN /\ UNCHANGED trades
       /\ Launch(IF openTrades = <<>>
                   THEN Reject(r, <<"You have no open trades to update.">>)
                   ELSE NextStocked([r EXCEPT !.list = openTrades]))

SellDoneAllReduce(i) ==
    LET r == reqs[i]
        res == reduceTradeStock(trades, r.tid, r.list[r.at].row.stock)
        tried == Note(r, "attempted")
        sold == [Note(tried, "updated") EXCEPT !.updated = res.row]
    IN /\ r.kind = "sellDoneAll" /\ r.pc = "allReduce"
       /\ trades' = res.db
       /\ reqs' = [reqs EXCEPT ![i] =
                     IF res.row = Null
                       THEN NextStocked(Note(tried, "updateFailures"))
                     ELSE IF allowOffline \/ ~HasPointer(res.row[1])
                       THEN LET counted == IF allowOffline THEN sold ELSE Note(sold, "missing")
                            IN IF res.row[1].status # "open"
                                 THEN [counted EXCEPT !.pc = "allClear"]
                                 ELSE NextStocked(counted)
                     ELSE [sold EXCEPT !.pc = "allPatch"]]

SellDoneAllPatch(i, ok) ==
    LET r == Issue(reqs[i], PatchCall(reqs[i].updated[1]))
        updated == r.updated[1]
        noted == IF ok THEN r ELSE Note(r, "patchFailures")
    IN /\ reqs[i].kind = "sellDoneAll" /\ reqs[i].pc = "allPatch"
       /\ remote' = IF ok
                      THEN patchTradeAnnouncement(
                               remote, Key(r), buildTradeEmbed(updated, Null),
                               IF updated.status = "open" THEN resolveTradeComponents(updated)
                                                          ELSE <<>>)
                      ELSE remote
       /\ reqs' = [reqs EXCEPT ![i] =
                     IF updated.status # "open" THEN [noted EXCEPT !.pc = "allClear"]
                                                ELSE NextStocked(noted)]
       /\ UNCHANGED trades

SellDoneAllClear(i, ok) ==
    LET r == reqs[i]
    IN /\ r.kind = "sellDoneAll" /\ r.pc = "allClear"
       /\ trades' = IF ok THEN updateTradeAnnouncementMetadata(trades, r.tid, ClearControls)
                          ELSE trades
       /\ reqs' = [reqs EXCEPT ![i] =
                     NextStocked(IF ok THEN r ELSE Note(r, "metadataFailures"))]


\* ------------------------------------------------------ the bot as a whole

GuildConfig(type) ==
    [ trade_channel_id |-> IF type = Null THEN Null ELSE Some("channel"),
      trade_channel_type |-> type,
      admin_role_id |-> Null ]

Init ==
    /\ trades = <<>>
    /\ guilds = [g \in Guilds |-> IF g = "g1" THEN GuildConfig(Some("text")) ELSE GuildConfig(Null)]
    /\ allowOffline = FALSE
    /\ reqs = <<>>
    /\ calls = <<>>
    /\ orders = <<>>
    /\ guildRoles = <<>>
    /\ remote = <<>>

\* The table a database file kept from an earlier run holds: the row a
\* completed /sell create left, announced and still open.
StoredTrade(stock) ==
    LET p == [guildId |-> "g1", userId |-> "u1", auec |-> 999, stock |-> stock,
              status |-> Null]
        created == createTrade(<<>>, p)
        controls == updateTradeAnnouncementMetadata(
                        created.db, 1, CreateControlIds(created.row[1], 1))
    IN updateTradeAnnouncementMetadata(
           controls, 1,
           MetaParams(Some("channel"), Some("message"), Undefined, Undefined, Undefined))

\* The bot starts on a database file that already exists: the tables are
\* created only when missing, so the rows of earlier runs are there.
InitRestart ==
    /\ trades \in { StoredTrade(stock) : stock \in {1, MaxStock} }
    /\ guilds = [g \in Guilds |-> IF g = "g1" THEN GuildConfig(Some("text")) ELSE GuildConfig(Null)]
    /\ allowOffline = FALSE
    /\ reqs = <<>>
    /\ calls = <<>>
    /\ orders = <<>>
    /\ guildRoles = <<>>
    /\ remote = (SellKey(1) :> CreatedMessage(trades[1], 1, Some("channel")))

Env == UNCHANGED <<guilds, allowOffline, calls, orders, guildRoles>>

\* The outcomes of a call where only its success is followed: the patches
\* of Spec, the calls of the bulk handler in SpecBuy and the clearing of
\* the control ids outside SpecSteps.  Patches and thread updates fail as
\* well in SpecGateway, every call in SpecSteps and in SpecBulk.
PatchOutcomes == {TRUE}

Next ==
    \/ \E g \in ActiveGuilds, u \in ActiveUsers, auec \in AuecInputs, stock \in StockInputs :
          SellCreateStart(g, u, auec, stock) /\ Env /\ UNCHANGED remote
    \/ \E i \in DOMAIN reqs : SellCreateControls(i) /\ Env /\ UNCHANGED remote
    \/ \E i \in DOMAIN reqs, ok \in BOOLEAN : SellCreateDeliver(i, ok) /\ Env
    \/ \E g \in ActiveGuilds, u \in ActiveUsers, t \in TradeIds, amount \in AmountInputs :
          SellDoneStart(g, u, t, amount) /\ Env /\ UNCHANGED remote
    \/ \E g \in ActiveGuilds, u \in ActiveUsers, c \in CustomIds :
          TradeComponentStart(g, u, c) /\ Env /\ UNCHANGED remote
    \/ \E i \in DOMAIN reqs : DoneReduce(i) /\ Env /\ UNCHANGED remote
    \/ \E i \in DOMAIN reqs, ok \in PatchOutcomes : ClearTradeControls(i, ok) /\ Env /\ UNCHANGED remote
    \/ \E g \in ActiveGuilds, u \in ActiveUsers, access \in AccessInputs, t \in TradeIds :
          TradeCancelStart(g, u, access, t) /\ Env /\ UNCHANGED remote
    \/ \E i \in DOMAIN reqs : CancelUpdateStatus(i) /\ Env /\ UNCHANGED remote
    \/ \E g \in ActiveGuilds, u \in ActiveUsers, t \in TradeIds, p \in PercentInputs :
          SellDiscountStart(g, u, t, p) /\ Env /\ UNCHANGED remote
    \/ \E i \in DOMAIN reqs : SellDiscountUpdate(i) /\ Env /\ UNCHANGED remote
    \/ \E i \in DOMAIN reqs, ok \in PatchOutcomes : PatchAnnouncement(i, ok) /\ Env

Spec == (Init \/ InitRestart) /\ [][Next]_vars

\* ------------------------------------------------------------ buy orders
\* The buy side by itself: one buyer, a guild whose trade channel is a forum
\* and a guild without a trade channel.

\* The row a completed /buy create left in a forum: control ids stored,
\* announced in its own thread, still open.
StoredOrderRow(orderId, u) ==
    LET p == [guildId |-> "g1", userId |-> u, price |-> 200, amount |-> Null]
        created == createBuyOrder(<<>>, p)
        controls == updateBuyOrderAnnouncementMetadata(
                        created.db, 1, BuyControlIds(orderId))
    IN updateBuyOrderAnnouncementMetadata(
           controls, 1, BuyMetaParams(Some("thread"), Some("message"), Undefined, Undefined))[1]

StoredOrders(n, u) == [k \in 1 .. n |-> StoredOrderRow(k, u)]

\* What Discord shows for the stored orders.
RECURSIVE StoredBuyMessages(_)
StoredBuyMessages(db) ==
    IF db = <<>>
      THEN <<>>
      ELSE LET n == Len(db)
           IN (BuyKey(n) :> CreatedBuyMessage(db[n], n, db[n].announcement_channel_id))
              @@ StoredBuyMessages(SubSeq(db, 1, n - 1))

ForumGuilds ==
    [g \in Guilds |-> IF g = "g1" THEN GuildConfig(Some("forum")) ELSE GuildConfig(Null)]

InitBuy ==
    /\ trades = <<>>
    /\ guilds = ForumGuilds
    /\ allowOffline = FALSE
    /\ reqs = <<>>
    /\ calls = <<>>
    /\ orders \in { StoredOrders(n, "u1") : n \in 0 .. MaxOrders }
    /\ guildRoles = <<>>
    /\ remote = StoredBuyMessages(orders)

BuyEnv == UNCHANGED <<trades, guilds, allowOffline, calls, guildRoles>>

NextBuy ==
    \/ \E g \in Guilds, u \in ActiveUsers, price \in PriceInputs, amount \in BuyAmountInputs :
          BuyCreateStart(g, u, price, amount) /\ BuyEnv /\ UNCHANGED remote
    \/ \E i \in DOMAIN reqs : BuyCreateControls(i) /\ BuyEnv /\ UNCHANGED remote
    \/ \E i \in DOMAIN reqs, ok \in BOOLEAN : BuyCreateDeliver(i, ok) /\ BuyEnv
    \/ \E g \in ActiveGuilds, u \in ActiveUsers, o \in OrderIds :
          BuyDoneStart(g, u, o) /\ BuyEnv /\ UNCHANGED remote
    \/ \E g \in ActiveGuilds, u \in ActiveUsers, o \in OrderIds :
          BuyCancelStart(g, u, o) /\ BuyEnv /\ UNCHANGED remote
    \/ \E g \in ActiveGuilds, u \in ActiveUsers, c \in BuyCustomIds :
          BuyComponentStart(g, u, c) /\ BuyEnv /\ UNCHANGED remote
    \/ \E i \in DOMAIN reqs : BuyUpdateStatus(i) /\ BuyEnv /\ UNCHANGED remote
    \/ \E i \in DOMAIN reqs, ok \in PatchOutcomes : BuyClearControls(i, ok) /\ BuyEnv /\ UNCHANGED remote
    \/ \E i \in DOMAIN reqs, ok \in BOOLEAN :
          PatchAnnouncement(i, ok) /\ BuyEnv /\ UNCHANGED orders
    \/ \E i \in DOMAIN reqs, ok \in BOOLEAN :
          SyncForumThread(i, ok) /\ BuyEnv /\ UNCHANGED orders
    \/ \E g \in ActiveGuilds, u \in ActiveUsers :
          BuyDoneAllStart(g, u) /\ BuyEnv /\ UNCHANGED remote
    \/ \E i \in DOMAIN reqs : BuyDoneAllStatus(i) /\ BuyEnv /\ UNCHANGED remote
    \/ \E i \in DOMAIN reqs, ok \in PatchOutcomes : BuyDoneAllClear(i, ok) /\ BuyEnv /\ UNCHANGED remote
    \/ \E i \in DOMAIN reqs, ok \in PatchOutcomes : BuyDoneAllPatch(i, ok) /\ BuyEnv
    \/ \E i \in DOMAIN reqs, ok \in PatchOutcomes : BuyDoneAllThread(i, ok) /\ BuyEnv

SpecBuy == InitBuy /\ [][NextBuy]_vars

\* ------------------------------------------------ transitions in a forum
\* Both sides in a guild whose trade channel is a forum, so that every
\* announcement has a thread: a seller and buyer u1, and u2, who owns
\* nothing and holds every privilege the guild can give.

StoredThreadTrade(stock) ==
    updateTradeAnnouncementMetadata(
        StoredTrade(stock), 1,
        MetaParams(Some("thread"), Undefined, Undefined, Undefined, Undefined))

PrivilegedGuilds ==
    [g \in Guilds |-> IF g = "g1" THEN updateAdminRole(ForumGuilds, "g1", Some("r1"))[g]
                                  ELSE ForumGuilds[g]]

InitGateway ==
    /\ trades = StoredThreadTrade(MaxStock)
    /\ guilds = PrivilegedGuilds
    /\ allowOffline = FALSE
    /\ reqs = <<>>
    /\ calls = <<>>
    /\ orders = StoredOrders(1, "u1")
    /\ guildRoles = addTradeRole(<<>>, "g1", "r2")
    /\ remote = (SellKey(1) :> CreatedMessage(trades[1], 1, Some("thread")))
                @@ StoredBuyMessages(orders)

GatewayPercents == {10}

\* The requests of this specification name records that exist.
StoredCustomIds == { c \in CustomIds : c[1] \in DOMAIN trades }
StoredBuyCustomIds == { c \in BuyCustomIds : c[2] \in DOMAIN orders }

NextGateway ==
    \/ \E g \in ActiveGuilds, u \in ActiveUsers, t \in DOMAIN trades, amount \in AmountInputs :
          SellDoneStart(g, u, t, amount) /\ Env /\ UNCHANGED remote
    \/ \E g \in ActiveGuilds, u \in ActiveUsers, c \in StoredCustomIds :
          TradeComponentStart(g, u, c) /\ Env /\ UNCHANGED remote
    \/ \E i \in DOMAIN reqs : DoneReduce(i) /\ Env /\ UNCHANGED remote
    \/ \E i \in DOMAIN reqs, ok \in PatchOutcomes : ClearTradeControls(i, ok) /\ Env /\ UNCHANGED remote
    \/ \E g \in ActiveGuilds, u \in ActiveUsers, t \in DOMAIN trades :
          TradeCancelStart(g, u, ensureAdminAccess(InteractionOf(g, u), TRUE,
                                                   guilds, guildRoles).ok, t)
          /\ Env /\ UNCHANGED remote
    \/ \E i \in DOMAIN reqs : CancelUpdateStatus(i) /\ Env /\ UNCHANGED remote
    \/ \E g \in ActiveGuilds, u \in ActiveUsers, t \in DOMAIN trades, p \in GatewayPercents :
          SellDiscountStart(g, u, t, p) /\ Env /\ UNCHANGED remote
    \/ \E i \in DOMAIN reqs : SellDiscountUpdate(i) /\ Env /\ UNCHANGED remote
    \/ \E g \in ActiveGuilds, u \in ActiveUsers, o \in DOMAIN orders :
          BuyDoneStart(g, u, o) /\ BuyEnv /\ UNCHANGED remote
    \/ \E g \in ActiveGuilds, u \in ActiveUsers, o \in DOMAIN orders :
          BuyCancelStart(g, u, o) /\ BuyEnv /\ UNCHANGED remote
    \/ \E g \in ActiveGuilds, u \in ActiveUsers, c \in StoredBuyCustomIds :
          BuyComponentStart(g, u, c) /\ BuyEnv /\ UNCHANGED remote
    \/ \E i \in DOMAIN reqs : BuyUpdateStatus(i) /\ BuyEnv /\ UNCHANGED remote
    \/ \E i \in DOMAIN reqs, ok \in PatchOutcomes : BuyClearControls(i, ok) /\ BuyEnv /\ UNCHANGED remote
    \/ \E i \in DOMAIN reqs, ok \in BOOLEAN : PatchAnnouncement(i, ok) /\ Env
    \/ \E i \in DOMAIN reqs, ok \in BOOLEAN : SyncForumThread(i, ok) /\ Env

SpecGateway == InitGateway /\ [][NextGateway]_vars

\* ------------------------------------------------------------ the callers
\* The same records and handlers with both callers, the bot running with
\* allowOffline so that no request waits for Discord.

InitCallers ==
    /\ trades = StoredThreadTrade(MaxStock)
    /\ guilds = PrivilegedGuilds
    /\ allowOffline = TRUE
    /\ reqs = <<>>
    /\ calls = <<>>
    /\ orders = StoredOrders(1, "u1")
    /\ guildRoles = addTradeRole(<<>>, "g1", "r2")
    /\ remote = (SellKey(1) :> CreatedMessage(trades[1], 1, Some("thread")))
                @@ StoredBuyMessages(orders)

NextCallers ==
    \/ \E g \in ActiveGuilds, u \in Users, t \in DOMAIN trades, amount \in AmountInputs :
          SellDoneStart(g, u, t, amount) /\ Env /\ UNCHANGED remote
    \/ \E g \in ActiveGuilds, u \in Users, c \in StoredCustomIds :
          TradeComponentStart(g, u, c) /\ Env /\ UNCHANGED remote
    \/ \E i \in DOMAIN reqs : DoneReduce(i) /\ Env /\ UNCHANGED remote
    \/ \E i \in DOMAIN reqs, ok \in PatchOutcomes : ClearTradeControls(i, ok) /\ Env /\ UNCHANGED remote
    \/ \E g \in ActiveGuilds, u \in Users, t \in DOMAIN trades :
          TradeCancelStart(g, u, ensureAdminAccess(InteractionOf(g, u), TRUE,
                                                   guilds, guildRoles).ok, t)
          /\ Env /\ UNCHANGED remote
    \/ \E i \in DOMAIN reqs : CancelUpdateStatus(i) /\ Env /\ UNCHANGED remote
    \/ \E g \in ActiveGuilds, u \in Users, t \in DOMAIN trades, p \in GatewayPercents :
          SellDiscountStart(g, u, t, p) /\ Env /\ UNCHANGED remote
    \/ \E i \in DOMAIN reqs : SellDiscountUpdate(i) /\ Env /\ UNCHANGED remote
    \/ \E g \in ActiveGuilds, u \in Users, o \in DOMAIN orders :
          BuyDoneStart(g, u, o) /\ BuyEnv /\ UNCHANGED remote
    \/ \E g \in ActiveGuilds, u \in Users, o \in DOMAIN orders :
          BuyCancelStart(g, u, o) /\ BuyEnv /\ UNCHANGED remote
    \/ \E g \in ActiveGuilds, u \in Users, c \in StoredBuyCustomIds :
          BuyComponentStart(g, u, c) /\ BuyEnv /\ UNCHANGED remote
    \/ \E i \in DOMAIN reqs : BuyUpdateStatus(i) /\ BuyEnv /\ UNCHANGED remote
    \/ \E i \in DOMAIN reqs, ok \in PatchOutcomes : BuyClearControls(i, ok) /\ BuyEnv /\ UNCHANGED remote

SpecCallers == InitCallers /\ [][NextCallers]_vars

\* ------------------------------------------------- the bulk operations
\* /sell done todos and /buy done todos over the records earlier /sell create
\* and /buy create requests of u1 left in a forum guild, two of each.
\* /sell create stores whatever stock it is given, so a stored open trade
\* can have stock 0.

BulkStocks == {0, 1}

StoredTradeRow(tradeId, stock) ==
    LET p == [guildId |-> "g1", userId |-> "u1", auec |-> 999, stock |-> stock,
              status |-> Null]
        created == createTrade(<<>>, p)
        controls == updateTradeAnnouncementMetadata(
                        created.db, 1, CreateControlIds(created.row[1], tradeId))
    IN updateTradeAnnouncementMetadata(
           controls, 1,
           MetaParams(Some("thread"), Some("message"), Undefined, Undefined, Undefined))[1]

StoredTrades(stocks) == [k \in DOMAIN stocks |-> StoredTradeRow(k, stocks[k])]

RECURSIVE StoredSellMessages(_)
StoredSellMessages(db) ==
    IF db = <<>>
      THEN <<>>
      ELSE LET n == Len(db)
           IN (SellKey(n) :> CreatedMessage(db[n], n, db[n].announcement_channel_id))
              @@ StoredSellMessages(SubSeq(db, 1, n - 1))

InitBulk ==
    /\ trades \in { StoredTrades(<<older, newer>>) : older, newer \in BulkStocks }
    /\ guilds = ForumGuilds
    /\ allowOffline = FALSE
    /\ reqs = <<>>
    /\ calls = <<>>
    /\ orders = StoredOrders(2, "u1")
    /\ guildRoles = <<>>
    /\ remote = StoredSellMessages(trades) @@ StoredBuyMessages(orders)

NextBulk ==
    \/ \E g \in ActiveGuilds, u \in ActiveUsers :
          SellDoneAllStart(g, u) /\ Env /\ UNCHANGED remote
    \/ \E i \in DOMAIN reqs : SellDoneAllReduce(i) /\ Env /\ UNCHANGED remote
    \/ \E i \in DOMAIN reqs, ok \in BOOLEAN : SellDoneAllPatch(i, ok) /\ Env
    \/ \E i \in DOMAIN reqs, ok \in BOOLEAN : SellDoneAllClear(i, ok) /\ Env /\ UNCHANGED remote
    \/ \E g \in ActiveGuilds, u \in ActiveUsers :
          BuyDoneAllStart(g, u) /\ BuyEnv /\ UNCHANGED remote
    \/ \E i \in DOMAIN reqs : BuyDoneAllStatus(i) /\ BuyEnv /\ UNCHANGED remote
    \/ \E i \in DOMAIN reqs, ok \in BOOLEAN : BuyDoneAllClear(i, ok) /\ BuyEnv /\ UNCHANGED remote
    \/ \E i \in DOMAIN reqs, ok \in BOOLEAN : BuyDoneAllPatch(i, ok) /\ BuyEnv
    \/ \E i \in DOMAIN reqs, ok \in BOOLEAN : BuyDoneAllThread(i, ok) /\ BuyEnv

SpecBulk == InitBulk /\ [][NextBulk]_vars

\* ------------------------------------------- one request after the other
\* Every transition handler on one stored trade and one stored order of u1,
\* a request starting only when the one before it has returned.  The bot is
\* offline, or online in a guild whose trade channel is a text channel or a
\* forum; the records were never announced, or were announced in the
\* configured channel itself, or in a thread of their own.  The statement
\* that clears the control ids, the patch of the announcement and the update
\* of the thread each succeed or fail.

StepModes == { <<TRUE, "forum">>, <<FALSE, "text">>, <<FALSE, "forum">> }

StepPointers == { Null, Some("channel"), Some("thread") }

Announced(row, pointer) ==
    [row EXCEPT !.announcement_channel_id = pointer,
                !.announcement_message_id = IF pointer = Null THEN Null ELSE Some("message")]

InitSteps ==
    /\ \E mode \in StepModes :
          /\ allowOffline = mode[1]
          /\ guilds = [g \in Guilds |-> IF g = "g1" THEN updateAdminRole(
                                                            [h \in Guilds |-> GuildConfig(Some(mode[2]))],
                                                            "g1", Some("r1"))[g]
                                                  ELSE GuildConfig(Null)]
    /\ \E pointer \in StepPointers :
          /\ trades = <<Announced(StoredTradeRow(1, MaxStock), pointer)>>
          /\ orders = <<Announced(StoredOrderRow(1, "u1"), pointer)>>
    /\ reqs = <<>>
    /\ calls = <<>>
    /\ guildRoles = addTradeRole(<<>>, "g1", "r2")
    /\ remote = (IF HasPointer(trades[1])
                   THEN StoredSellMessages(trades) @@ StoredBuyMessages(orders)
                   ELSE <<>>)

Returned == \A i \in DOMAIN reqs : reqs[i].pc = "done"

NextSteps ==
    \/ \E g \in ActiveGuilds, u \in ActiveUsers, t \in DOMAIN trades, amount \in AmountInputs :
          Returned /\ SellDoneStart(g, u, t, amount) /\ Env /\ UNCHANGED remote
    \/ \E g \in ActiveGuilds, u \in ActiveUsers, c \in StoredCustomIds :
          Returned /\ TradeComponentStart(g, u, c) /\ Env /\ UNCHANGED remote
    \/ \E g \in ActiveGuilds, u \in Users, t \in DOMAIN trades :
          /\ Returned
          /\ TradeCancelStart(g, u, ensureAdminAccess(InteractionOf(g, u), TRUE,
                                                      guilds, guildRoles).ok, t)
          /\ Env /\ UNCHANGED remote
    \/ \E g \in ActiveGuilds, u \in ActiveUsers, t \in DOMAIN trades, p \in GatewayPercents :
          Returned /\ SellDiscountStart(g, u, t, p) /\ Env /\ UNCHANGED remote
    \/ \E g \in ActiveGuilds, u \in ActiveUsers :
          Returned /\ SellDoneAllStart(g, u) /\ Env /\ UNCHANGED remote
    \/ \E g \in ActiveGuilds, u \in ActiveUsers, o \in DOMAIN orders :
          Returned /\ BuyDoneStart(g, u, o) /\ BuyEnv /\ UNCHANGED remote
    \/ \E g \in ActiveGuilds, u \in ActiveUsers, o \in DOMAIN orders :
          Returned /\ BuyCancelStart(g, u, o) /\ BuyEnv /\ UNCHANGED remote
    \/ \E g \in ActiveGuilds, u \in ActiveUsers, c \in StoredBuyCustomIds :
          Returned /\ BuyComponentStart(g, u, c) /\ BuyEnv /\ UNCHANGED remote
    \/ \E g \in ActiveGuilds, u \in ActiveUsers :
          Returned /\ BuyDoneAllStart(g, u) /\ BuyEnv /\ UNCHANGED remote
    \/ \E i \in DOMAIN reqs : DoneReduce(i) /\ Env /\ UNCHANGED remote
    \/ \E i \in DOMAIN reqs : CancelUpdateStatus(i) /\ Env /\ UNCHANGED remote
    \/ \E i \in DOMAIN reqs : SellDiscountUpdate(i) /\ Env /\ UNCHANGED remote
    \/ \E i \in DOMAIN reqs, ok \in BOOLEAN : ClearTradeControls(i, ok) /\ Env /\ UNCHANGED remote
    \/ \E i \in DOMAIN reqs : BuyUpdateStatus(i) /\ BuyEnv /\ UNCHANGED remote
    \/ \E i \in DOMAIN reqs, ok \in BOOLEAN : BuyClearControls(i, ok) /\ BuyEnv /\ UNCHANGED remote
    \/ \E i \in DOMAIN reqs, ok \in BOOLEAN : PatchAnnouncement(i, ok) /\ Env
    \/ \E i \in DOMAIN reqs, ok \in BOOLEAN : SyncForumThread(i, ok) /\ Env
    \/ \E i \in DOMAIN reqs : SellDoneAllReduce(i) /\ Env /\ UNCHANGED remote
    \/ \E i \in DOMAIN reqs, ok \in BOOLEAN : SellDoneAllPatch(i, ok) /\ Env
    \/ \E i \in DOMAIN reqs, ok \in BOOLEAN : SellDoneAllClear(i, ok) /\ Env /\ UNCHANGED remote
    \/ \E i \in DOMAIN reqs : BuyDoneAllStatus(i) /\ BuyEnv /\ UNCHANGED remote
    \/ \E i \in DOMAIN reqs, ok \in BOOLEAN : BuyDoneAllClear(i, ok) /\ BuyEnv /\ UNCHANGED remote
    \/ \E i \in DOMAIN reqs, ok \in BOOLEAN : BuyDoneAllPatch(i, ok) /\ BuyEnv
    \/ \E i \in DOMAIN reqs, ok \in BOOLEAN : BuyDoneAllThread(i, ok) /\ BuyEnv

SpecSteps == InitSteps /\ [][NextSteps]_vars

\* ------------------------------------------- the persistence layer by itself
\* SpecDb drives the functions of the persistence layer directly, with
\* arguments no handler screens, and logs each call: its arguments, the
\* table before it (pre), the row it returned and whether it threw.

NewCall(op, tradeId) ==
    [ op |-> op, tid |-> tradeId, auec |-> 0, stock |-> 0, status |-> Null,
      amount |-> 0, percent |-> Null, pre |-> trades, row |-> Null, threw |-> FALSE ]

Logged(c, res) ==
    /\ trades' = res.db
    /\ calls' = Append(calls, [c EXCEPT !.row = res.row, !.threw = res.threw])

\* The table a logged call left behind.
PostOf(k) == IF k < Len(calls) THEN calls[k + 1].pre ELSE trades

DbCreateInputs == { <<999, 1>>, <<999, MaxStock>>, <<999, 0>>, <<999, -1>>, <<0, 1>>, <<-5, 1>> }
DbCreateStatusInputs == { Null, Some("complete"), Some("sold_out") }
DbStatusInputs == { "cancelled", "expired", "sold_out" }
DbAmountInputs == 0 .. (MaxStock + 1)
DbPercentInputs == { Null, Some(10), Some(96) }
DbMetaInputs ==
    { MetaParams(Undefined, Undefined, Some(DoneOneCustomId(1)), Null, Some(CancelCustomId(1))),
      MetaParams(Some("channel"), Some("message"), Undefined, Undefined, Undefined),
      ClearControls }

DbCreateTrade(auec, stock, status) ==
    LET p == [guildId |-> "g1", userId |-> "u1", auec |-> auec, stock |-> stock,
              status |-> status]
        c == [NewCall("createTrade", 0) EXCEPT !.auec = auec, !.stock = stock,
                                               !.status = status]
    IN /\ Len(trades) < MaxTrades
       /\ Logged(c, createTrade(trades, p))

DbReduceTradeStock(tradeId, amount) ==
    Logged([NewCall("reduceTradeStock", tradeId) EXCEPT !.amount = amount],
           reduceTradeStock(trades, tradeId, amount))

DbUpdateTradeStatus(tradeId, status) ==
    Logged([NewCall("updateTradeStatus", tradeId) EXCEPT !.status = Some(status)],
           updateTradeStatus(trades, tradeId, status, Null))

DbUpdateTradeDiscount(tradeId, percent) ==
    Logged([NewCall("updateTradeDiscount", tradeId) EXCEPT !.percent = percent],
           updateTradeDiscount(trades, tradeId, percent))

DbUpdateTradeAnnouncementMetadata(tradeId, m) ==
    Logged(NewCall("updateTradeAnnouncementMetadata", tradeId),
           Result(updateTradeAnnouncementMetadata(trades, tradeId, m), Null, FALSE))

DbEnv == UNCHANGED <<guilds, allowOffline, reqs, orders, guildRoles, remote>>

NextDb ==
    /\ Len(calls) < MaxCalls
    /\ \/ \E inp \in DbCreateInputs, status \in DbCreateStatusInputs :
             DbCreateTrade(inp[1], inp[2], status) /\ DbEnv
       \/ \E t \in TradeIds, amount \in DbAmountInputs : DbReduceTradeStock(t, amount) /\ DbEnv
       \/ \E t \in TradeIds, status \in DbStatusInputs : DbUpdateTradeStatus(t, status) /\ DbEnv
       \/ \E t \in TradeIds, percent \in DbPercentInputs : DbUpdateTradeDiscount(t, percent) /\ DbEnv
       \/ \E t \in TradeIds, m \in DbMetaInputs :
             DbUpdateTradeAnnouncementMetadata(t, m) /\ DbEnv

SpecDb == Init /\ [][NextDb]_vars

\* SpecRoundTrip: a trade is created, a discount is set on it (any percent
\* of the handlers' range and the two just outside it) and then removed.
RoundTripCreateInputs == { <<999, 1>>, <<1000, MaxStock>>, <<1, 1>>, <<150, 1>>, <<-5, 1>> }
RoundTripStatusInputs == { Null, Some("selled"), Some("cancelled") }
RoundTripPercents == (MinPercent - 1) .. (MaxPercent + 1)

RoundTripCreate(auec, stock, status) ==
    /\ calls = <<>>
    /\ DbCreateTrade(auec, stock, status)

RoundTripSet(tradeId, p) ==
    /\ Len(calls) = 1
    /\ DbUpdateTradeDiscount(tradeId, Some(p))

RoundTripRemove(tradeId) ==
    /\ Len(calls) = 2
    /\ DbUpdateTradeDiscount(tradeId, Null)

NextRoundTrip ==
    \/ \E inp \in RoundTripCreateInputs, status \in RoundTripStatusInputs :
          RoundTripCreate(inp[1], inp[2], status) /\ DbEnv
    \/ \E t \in TradeIds, p \in RoundTripPercents : RoundTripSet(t, p) /\ DbEnv
    \/ \E t \in TradeIds : RoundTripRemove(t) /\ DbEnv

SpecRoundTrip == Init /\ [][NextRoundTrip]_vars

\* ------------------------------------- the role configuration by itself
\* Every call is logged with the configuration it found.
NewRoleCall(op, guildId, roleId) ==
    [ op |-> op, guild |-> guildId, role |-> roleId, interaction |-> Null,
      allowModeratorRoles |-> FALSE,
      pre |-> [guilds |-> guilds, guildRoles |-> guildRoles],
      threw |-> FALSE, result |-> Null ]

RolesPostOf(k) ==
    IF k < Len(calls) THEN calls[k + 1].pre
                      ELSE [guilds |-> guilds, guildRoles |-> guildRoles]

PermissionInputs == { Null, Some(0), Some(8), Some(12), Some(16), Unparsable }
MemberRolesInputs == { <<>>, <<"r1">>, <<"r2">>, <<"r1", "r2">> }
MemberInputs ==
    {Null} \cup { Some([permissions |-> pm, roles |-> rs]) :
                     pm \in PermissionInputs, rs \in MemberRolesInputs }
InteractionInputs ==
    { [guild_id |-> g, member |-> m] : g \in {Null, Some("g1")}, m \in MemberInputs }

RolesAdd(guildId, roleId) ==
    /\ guildRoles' = addTradeRole(guildRoles, guildId, roleId)
    /\ calls' = Append(calls, NewRoleCall("addTradeRole", guildId, Some(roleId)))
    /\ UNCHANGED guilds

RolesRemove(guildId, roleId) ==
    /\ guildRoles' = removeTradeRole(guildRoles, guildId, roleId)
    /\ calls' = Append(calls, NewRoleCall("removeTradeRole", guildId, Some(roleId)))
    /\ UNCHANGED guilds

RolesSetAdmin(guildId, roleId) ==
    /\ guilds' = updateAdminRole(guilds, guildId, roleId)
    /\ calls' = Append(calls, NewRoleCall("updateAdminRole", guildId, roleId))
    /\ UNCHANGED guildRoles

AccessCheck(interaction, allowModeratorRoles) ==
    /\ calls' = Append(calls,
                   [NewRoleCall("ensureAdminAccess", Null, Null) EXCEPT
                      !.interaction = Some(interaction),
                      !.allowModeratorRoles = allowModeratorRoles,
                      !.result = Some(ensureAdminAccess(interaction, allowModeratorRoles,
                                                        guilds, guildRoles))])
    /\ UNCHANGED <<guilds, guildRoles>>

RolesEnv == UNCHANGED <<trades, allowOffline, reqs, orders, remote>>

\* The configuration calls in any order, then one access check.
NextRoles ==
    /\ Len(calls) < MaxCalls
    /\ IF calls = <<>> THEN TRUE ELSE calls[Len(calls)].op # "ensureAdminAccess"
    /\ \/ \E g \in Guilds, role \in Roles : RolesAdd(g, role) /\ RolesEnv
       \/ \E g \in Guilds, role \in Roles : RolesRemove(g, role) /\ RolesEnv
       \/ \E g \in Guilds, role \in {Null} \cup {Some(x) : x \in Roles} :
             RolesSetAdmin(g, role) /\ RolesEnv
       \/ \E interaction \in InteractionInputs, allowModeratorRoles \in BOOLEAN :
             AccessCheck(interaction, allowModeratorRoles) /\ RolesEnv

SpecRoles == Init /\ [][NextRoles]_vars

\* ------------------------------------------------- the controls by themselves
\* The three functions that turn a stored record into its buttons, applied to
\* every record the tables can hold: any status, any stock, and for each
\* control id column null, the empty text, the id /sell create or /buy create
\* stores, or some other text.

OtherCustomId == <<0, "other">>

RenderIds(created) == {Null, Some(<<>>), Some(created), Some(OtherCustomId)}

RenderTrades ==
    { [NewTradeRow([guildId |-> "g1", userId |-> "u1", auec |-> 999, stock |-> stock],
                   status)
         EXCEPT !.done_one_button_custom_id = one,
                !.done_all_button_custom_id = all,
                !.cancel_button_custom_id = cancel] :
        status \in trade_status, stock \in StockInputs,
        one \in RenderIds(DoneOneCustomId(1)), all \in RenderIds(DoneAllCustomId(1)),
        cancel \in RenderIds(CancelCustomId(1)) }

RenderOrders ==
    { [NewBuyOrderRow([guildId |-> "g1", userId |-> "u1", price |-> 200, amount |-> Null])
         EXCEPT !.status = status,
                !.done_button_custom_id = done,
                !.cancel_button_custom_id = cancel] :
        status \in buy_order_status,
        done \in RenderIds(BuyDoneCustomId(1)), cancel \in RenderIds(BuyCancelCustomId(1)) }

InitRender ==
    /\ \/ trades \in { <<row>> : row \in RenderTrades } /\ orders = <<>>
       \/ trades = <<>> /\ orders \in { <<row>> : row \in RenderOrders }
    /\ guilds = [g \in Guilds |-> IF g = "g1" THEN GuildConfig(Some("text")) ELSE GuildConfig(Null)]
    /\ allowOffline = FALSE
    /\ reqs = <<>>
    /\ calls = <<>>
    /\ guildRoles = <<>>
    /\ remote = <<>>

RenderKey(function, id) == <<function, id>>

\* remote gets, under the name of the function, what it made of the record.
Render(function, id, components) ==
    /\ RenderKey(function, id) \notin DOMAIN remote
    /\ remote' = (RenderKey(function, id) :> components) @@ remote
    /\ UNCHANGED <<trades, guilds, allowOffline, reqs, calls, orders, guildRoles>>

NextRender ==
    \/ \E t \in DOMAIN trades :
          Render("resolveTradeComponents", t, resolveTradeComponents(trades[t]))
    \/ \E t \in DOMAIN trades :
          Render("buildActiveComponents", t, buildActiveComponents(trades[t]))
    \/ \E o \in DOMAIN orders :
          Render("resolveBuyComponents", o, resolveBuyComponents(orders[o]))

SpecRender == InitRender /\ [][NextRender]_vars

\* ------------------------------------------- the delivery by itself
\* deliverTradeAnnouncement as a process of its own: reqs holds its one
\* call, calls the requests it has sent to Discord with their answers,
\* remote the forum channel as Discord would describe it.

BAD_REQUEST == 400
TAG_REQUIRED == 40067

\* The answers of Discord: a created message or thread, with or without
\* its ids, and the failures by status and by the code of the error body
\* (0 when the body has none or is not JSON).
Answer(ok, status, code, id, message) ==
    [ok |-> ok, status |-> status, code |-> code, id |-> id, message |-> message]

CreatedAnswers ==
    { Answer(TRUE, 200, 0, id, message) :
        id \in {Null, Some("thread")}, message \in {Null, Some("message")} }

FailedAnswers ==
    { Answer(FALSE, status, code, Null, Null) :
        status \in {BAD_REQUEST, 403}, code \in {0, TAG_REQUIRED, 50035} }

Answers == CreatedAnswers \cup FailedAnswers

\* available_tags of the forum: absent, or a list of tags whose id is a
\* text or null.
TagLists ==
    { Null, Some(<<>>), Some(<<Null>>), Some(<<Some("t1"), Some("t2")>>),
      Some(<<Null, Some("t2")>>), Some(<<Some(""), Some("t2")>>) }

\* params.appliedTags: absent, empty or one tag.
AppliedTagInputs == { Null, Some(<<>>), Some(<<"t9">>) }

NoTags(appliedTags) == appliedTags = Null \/ Len(appliedTags[1]) = 0

\* A retry after any 400.
missingRequiredTag_AnyBadRequest(answer, appliedTags) ==
    answer.status = BAD_REQUEST /\ NoTags(appliedTags)

missingRequiredTag(answer, appliedTags) ==
    answer.status = BAD_REQUEST /\ answer.code = TAG_REQUIRED /\ NoTags(appliedTags)

\* available_tags?.find((tag) => typeof tag?.id === "string")?.id ?? null
fallbackTag(available_tags) ==
    IF available_tags = Null
      THEN Null
      ELSE LET texts == SelectSeq(available_tags[1], LAMBDA id : id # Null)
           IN IF texts = <<>> THEN Null ELSE texts[1]

Request(request, applied_tags, answer) ==
    [request |-> request, applied_tags |-> applied_tags, answer |-> answer]

\* applied_tags of the thread payload: set only for a non-empty list.
buildThreadPayload(appliedTags) == IF NoTags(appliedTags) THEN Null ELSE appliedTags

Delivery(channelType, appliedTags) ==
    [ kind |-> "deliver", channelType |-> channelType, supplied |-> appliedTags,
      appliedTags |-> appliedTags, attempt |-> 0,
      pc |-> IF channelType = "text" THEN "post" ELSE "thread",
      result |-> Null, error |-> Null ]

InitDeliver ==
    /\ trades = <<>>
    /\ orders = <<>>
    /\ guilds = [g \in Guilds |-> GuildConfig(Null)]
    /\ allowOffline = FALSE
    /\ guildRoles = <<>>
    /\ calls = <<>>
    /\ \E channelType \in {"text", "forum"}, appliedTags \in AppliedTagInputs :
          reqs = << Delivery(channelType, appliedTags) >>
    /\ \E tags \in TagLists : remote = [available_tags |-> tags]

Throw(d, text) == [d EXCEPT !.pc = "done", !.error = Some(text)]

\* The result of a created message in a text channel.
PostedResult(d, answer) ==
    [d EXCEPT !.pc = "done",
              !.result = Some([ url |-> answer.message # Null,
                                messageId |-> answer.message,
                                messageChannelId |-> IF answer.message # Null
                                                       THEN Some("channel") ELSE Null ])]

\* The result of a created thread.
ThreadResult(d, answer) ==
    [d EXCEPT !.pc = "done",
              !.result = Some([ url |-> answer.id # Null,
                                messageId |-> answer.message,
                                messageChannelId |-> IF answer.message # Null /\ answer.id # Null
                                                       THEN answer.id ELSE Null ])]

DeliverEnv == UNCHANGED <<trades, guilds, allowOffline, orders, guildRoles, remote>>

\* POST /channels/{id}/messages of a text channel.
DeliverPost(answer) ==
    LET d == reqs[1]
    IN /\ d.pc = "post"
       /\ calls' = Append(calls, Request("POST messages", Null, answer))
       /\ reqs' = << IF answer.ok THEN PostedResult(d, answer)
                                  ELSE Throw(d, "Failed to post trade announcement") >>
       /\ DeliverEnv

\* One turn of the loop up to the answer to POST /channels/{id}/threads.
DeliverCreateThread(answer) ==
    LET d == reqs[1]
    IN /\ d.pc = "thread"
       /\ calls' = Append(calls, Request("POST threads", buildThreadPayload(d.appliedTags), answer))
       /\ reqs' = << IF answer.ok
                       THEN ThreadResult(d, answer)
                     ELSE IF ~missingRequiredTag(answer, d.appliedTags) \/ d.attempt = 1
                       THEN Throw(d, "Failed to create forum thread")
                     ELSE [d EXCEPT !.pc = "forum"] >>
       /\ DeliverEnv

\* The rest of the turn: GET /channels/{id} and the choice of the tag.
DeliverLoadForum(ok) ==
    LET d == reqs[1]
        tag == fallbackTag(remote.available_tags)
    IN /\ d.pc = "forum"
       /\ calls' = Append(calls, Request("GET channel", Null,
                                         Answer(ok, IF ok THEN 200 ELSE 403, 0, Null, Null)))
       /\ reqs' = << IF ~ok
                       THEN Throw(d, "Failed to load forum channel details")
                     ELSE IF tag = Null \/ tag = Some("")
                       THEN Throw(d, "Forum channel requires a tag but none are configured")
                     ELSE [d EXCEPT !.appliedTags = Some(<<tag[1]>>),
                                    !.attempt = @ + 1, !.pc = "thread"] >>
       /\ DeliverEnv

NextDeliver ==
    \/ \E answer \in Answers : DeliverPost(answer)
    \/ \E answer \in Answers : DeliverCreateThread(answer)
    \/ \E ok \in BOOLEAN : DeliverLoadForum(ok)

SpecDeliver == InitDeliver /\ [][NextDeliver]_vars

\* ------------------------------------------- the interaction endpoint
\* handleInteraction as a process of its own: reqs holds the one HTTP
\* request, calls the responses given to it.  What a handler does inside is
\* left open here: it returns a response or throws.

InteractionTypes == {"PING", "APPLICATION_COMMAND", "MESSAGE_COMPONENT", "MODAL_SUBMIT"}

\* The names a command interaction can carry: none, one of commandMap, one
\* that is not.
CommandNames == {Null, Some("sell"), Some("unknown")}
commandMap == {"sell", "buy", "trade", "tradeconfig", "help"}

HandlerOutcomes == {"returns", "throws"}

\* new Response(text, {status}) and jsonResponse(payload).
TextResponse(text, status) == [json |-> FALSE, status |-> status, content |-> text]
jsonResponse(content) == [json |-> TRUE, status |-> 200, content |-> content]

\* An awaited handler whose error is not caught: the promise of
\* handleInteraction rejects.
Guarded_Rethrows(outcome, message) ==
    IF outcome = "throws" THEN [json |-> FALSE, status |-> 500, content |-> "rejected"]
                          ELSE jsonResponse("handler response")

\* try { await handler } catch { generic reply }
Guarded(outcome, message) ==
    IF outcome = "throws" THEN jsonResponse(message)
                          ELSE jsonResponse("handler response")

Interaction(headers, valid, parses, type, name, outcome) ==
    [ kind |-> "interaction", headers |-> headers, valid |-> valid, parses |-> parses,
      type |-> type, name |-> name, outcome |-> outcome, pc |-> "verify" ]

InitInteraction ==
    /\ trades = <<>>
    /\ orders = <<>>
    /\ guilds = [g \in Guilds |-> GuildConfig(Null)]
    /\ allowOffline = FALSE
    /\ guildRoles = <<>>
    /\ calls = <<>>
    /\ remote = <<>>
    /\ \E headers \in BOOLEAN, valid \in BOOLEAN, parses \in BOOLEAN,
          type \in InteractionTypes, name \in CommandNames, outcome \in HandlerOutcomes :
          reqs = << Interaction(headers, valid, parses, type, name, outcome) >>

InteractionEnv == UNCHANGED <<trades, guilds, allowOffline, orders, guildRoles, remote>>

Respond(response) ==
    /\ calls' = Append(calls, response)
    /\ reqs' = << [reqs[1] EXCEPT !.pc = "answered"] >>

\* The signature headers, the body and verifyKey.
VerifyInteraction ==
    LET q == reqs[1]
    IN /\ q.pc = "verify"
       /\ IF ~q.headers
            THEN Respond(TextResponse("Missing signature headers", 401))
          ELSE IF ~q.valid
            THEN Respond(TextResponse("Bad request signature", 401))
          ELSE reqs' = << [q EXCEPT !.pc = "route"] >> /\ UNCHANGED calls
       /\ InteractionEnv

\* From JSON.parse to the call of the handler.
RouteInteraction ==
    LET q == reqs[1]
    IN /\ q.pc = "route"
       /\ IF ~q.parses
            THEN Respond(TextResponse("Invalid JSON", 400))
          ELSE IF q.type = "PING"
            THEN Respond(jsonResponse("PONG"))
          ELSE IF q.type = "MESSAGE_COMPONENT"
            THEN reqs' = << [q EXCEPT !.pc = "component"] >> /\ UNCHANGED calls
          ELSE IF q.type # "APPLICATION_COMMAND"
            THEN Respond(jsonResponse("Unsupported interaction type."))
          ELSE IF q.name = Null
            THEN Respond(jsonResponse("Interaction is missing a command name."))
          ELSE IF q.name[1] \notin commandMap
            THEN Respond(jsonResponse("Unknown command"))
          ELSE reqs' = << [q EXCEPT !.pc = "command"] >> /\ UNCHANGED calls
       /\ InteractionEnv

\* await handleTradeComponent(...)
ComponentHandler ==
    /\ reqs[1].pc = "component"
    /\ Respond(Guarded(reqs[1].outcome,
                       "An unexpected error occurred while processing the component interaction."))
    /\ InteractionEnv

\* await command.execute(...)
CommandHandler ==
    /\ reqs[1].pc = "command"
    /\ Respond(Guarded(reqs[1].outcome,
                       "An unexpected error occurred while processing the command."))
    /\ InteractionEnv

NextInteraction ==
    \/ VerifyInteraction
    \/ RouteInteraction
    \/ ComponentHandler
    \/ CommandHandler

SpecInteraction == InitInteraction /\ [][NextInteraction]_vars

\* ------------------------------------------- the schema setup by itself
\* initializeDatabase over the trades table of a store: remote is the
\* table (its columns, whether its status check lists 'selled', its rows,
\* each a function from column names to values), reqs the runs made so
\* far.  The function has no await: a run is one step.

MaxRuns == 2

\* The columns every trades table has had, those added since, and the
\* former name of done_one_button_custom_id.
BaseColumns ==
    {"id", "guild_id", "user_id", "title", "auec", "stock", "image_url",
     "status", "reason", "created_at", "updated_at"}
NewerColumns ==
    {"announcement_channel_id", "announcement_message_id",
     "done_one_button_custom_id", "done_all_button_custom_id",
     "cancel_button_custom_id", "discount_percent", "discounted_auec"}
LegacyColumn == "close_button_custom_id"
CurrentColumns == BaseColumns \cup NewerColumns

Table(columns, selled, rows) ==
    [exists |-> TRUE, columns |-> columns, selled |-> selled, rows |-> rows]

NoTable == [exists |-> FALSE, columns |-> {}, selled |-> FALSE, rows |-> <<>>]

\* A stored row: its id, and a value that tells the column and the row.
StoredRow(columns, id) == [c \in columns |-> IF c = "id" THEN <<id>> ELSE <<c, id>>]

\* A term of a column list or of a select list: an expression and, with
\* AS, an alias.
Term(expr, alias) == [expr |-> expr, alias |-> alias]
Col(name) == Term(name, Null)
Has(cols, name) == IF name \in cols THEN name ELSE "NULL"

\* The column list of the INSERT of recreateTradesTable, as it is written.
InsertColumns(cols) ==
    << Col("id"), Col("guild_id"), Col("user_id"), Col("title"), Col("auec"),
       Term(Has(cols, "discount_percent"), Some("discount_percent")),
       Term(Has(cols, "discounted_auec"), Some("discounted_auec")),
       Col("stock"), Col("image_url"),
       Col("announcement_channel_id"), Col("announcement_message_id"),
       Col("done_one_button_custom_id"), Col("done_all_button_custom_id"),
       Col("cancel_button_custom_id"),
       Col("status"), Col("reason"), Col("created_at"), Col("updated_at") >>

\* Its SELECT list.
SelectList(cols) ==
    << Col("id"), Col("guild_id"), Col("user_id"), Col("title"), Col("auec"),
       Col("stock"), Col("image_url"),
       Term(Has(cols, "announcement_channel_id"), Some("announcement_channel_id")),
       Term(Has(cols, "announcement_message_id"), Some("announcement_message_id")),
       Term(IF "done_one_button_custom_id" \in cols THEN "done_one_button_custom_id"
                                                    ELSE Has(cols, LegacyColumn),
            Some("done_one_button_custom_id")),
       Term(Has(cols, "done_all_button_custom_id"), Some("done_all_button_custom_id")),
       Term(Has(cols, "cancel_button_custom_id"), Some("cancel_button_custom_id")),
       Col("status"),
       Term(Has(cols, "reason"), Some("reason")),
       Term(IF "created_at" \in cols THEN "created_at" ELSE "datetime('now')", Some("created_at")),
       Term(IF "updated_at" \in cols THEN "updated_at" ELSE "datetime('now')", Some("updated_at")) >>

\* SQLite prepares INSERT INTO t (columns) SELECT ... only when the column
\* list holds bare names of columns of t and the SELECT yields one value
\* for each.
Prepares(targets, select, columns) ==
    /\ \A k \in DOMAIN targets : targets[k].alias = Null /\ targets[k].expr \in columns
    /\ Len(targets) = Len(select)

Eval(expr, row) ==
    IF expr = "NULL" THEN Null
    ELSE IF expr = "datetime('now')" THEN <<"now">>
    ELSE row[expr]

\* The rows the INSERT ... SELECT puts into the new table; a column the
\* list does not name gets its default, NULL.
Copied(targets, select, old) ==
    [k \in DOMAIN old.rows |->
        [c \in CurrentColumns |->
            IF \E j \in DOMAIN targets : targets[j].expr = c
              THEN Eval(select[CHOOSE j \in DOMAIN targets : targets[j].expr = c].expr,
                        old.rows[k])
              ELSE Null]]

\* recreateTradesTable: rename, create, copy, drop, in one transaction
\* that is rolled back when a statement throws.
recreateTradesTable(table) ==
    LET targets == InsertColumns(table.columns)
        select == SelectList(table.columns)
    IN IF Prepares(targets, select, CurrentColumns)
         THEN [ table |-> Table(CurrentColumns, TRUE, Copied(targets, select, table)),
                ddl |-> <<"RENAME TO trades_old", "CREATE TABLE trades", "DROP TABLE trades_old">>,
                error |-> Null ]
         ELSE [ table |-> table, ddl |-> <<>>, error |-> Some("SQLiteError: syntax error") ]

\* ALTER TABLE trades ADD COLUMN c, when the column is missing.
AddColumn(t, c) ==
    IF c \in t.table.columns
      THEN t
      ELSE [ table |-> [t.table EXCEPT
                          !.columns = @ \cup {c},
                          !.rows = [k \in DOMAIN @ |-> (c :> Null) @@ @[k]]],
             ddl |-> Append(t.ddl, "ADD COLUMN " \o c),
             error |-> Null ]

\* ALTER TABLE trades RENAME COLUMN from TO to.
RenameColumn(t, from, to) ==
    [ table |-> [t.table EXCEPT
                   !.columns = (@ \ {from}) \cup {to},
                   !.rows = [k \in DOMAIN @ |->
                               [c \in (DOMAIN @[k] \ {from}) \cup {to} |->
                                   IF c = to THEN @[k][from] ELSE @[k][c]]]],
      ddl |-> Append(t.ddl, "RENAME COLUMN " \o from),
      error |-> Null ]

\* The statements after the rebuild, over the column names read before
\* them.
AlterColumns(t) ==
    LET names == t.table.columns
        a == AddColumn(AddColumn(t, "announcement_channel_id"), "announcement_message_id")
        b == IF "done_one_button_custom_id" \in names
               THEN a
             ELSE IF LegacyColumn \in names
               THEN RenameColumn(a, LegacyColumn, "done_one_button_custom_id")
             ELSE AddColumn(a, "done_one_button_custom_id")
        c == AddColumn(AddColumn(b, "done_all_button_custom_id"), "cancel_button_custom_id")
    IN AddColumn(AddColumn(c, "discount_percent"), "discounted_auec")

\* CREATE TABLE IF NOT EXISTS trades, the rebuild of a table whose check
\* does not list 'selled', the ALTER statements.
initializeDatabase(store) ==
    LET created == IF store.exists
                     THEN [table |-> store, ddl |-> <<>>, error |-> Null]
                     ELSE [table |-> Table(CurrentColumns, TRUE, <<>>),
                           ddl |-> <<"CREATE TABLE trades">>, error |-> Null]
        rebuilt == IF created.table.columns # {} /\ ~created.table.selled
                     THEN recreateTradesTable(created.table)
                     ELSE created
    IN IF rebuilt.error # Null THEN rebuilt ELSE AlterColumns(rebuilt)

\* The stores a deployment may start from: none, or a trades table of some
\* earlier shape with up to two rows.
OldTables ==
    { Table(BaseColumns \cup added, selled,
            [k \in 1 .. n |-> StoredRow(BaseColumns \cup added, k)]) :
        added \in SUBSET (NewerColumns \cup {LegacyColumn}),
        selled \in BOOLEAN, n \in 0 .. 2 }

InitSchema ==
    /\ trades = <<>>
    /\ orders = <<>>
    /\ guilds = [g \in Guilds |-> GuildConfig(Null)]
    /\ allowOffline = FALSE
    /\ guildRoles = <<>>
    /\ calls = <<>>
    /\ reqs = <<>>
    /\ remote \in {NoTable} \cup OldTables

\* One start of the bot: the run, what it found and what it left.
RunInitializeDatabase ==
    LET run == initializeDatabase(remote)
    IN /\ Len(reqs) < MaxRuns
       /\ remote' = run.table
       /\ reqs' = Append(reqs, [kind |-> "initializeDatabase", before |-> remote,
                                ddl |-> run.ddl, error |-> run.error])
       /\ UNCHANGED <<trades, guilds, allowOffline, calls, orders, guildRoles>>

NextSchema == RunInitializeDatabase

SpecSchema == InitSchema /\ [][NextSchema]_vars

\* ------------------------------------------- the metadata update by itself
\* One call of updateTradeAnnouncementMetadata under every combination of
\* absent, null and text parameters, on a row with no metadata, on an
\* announced row with its control ids and on that row with the ids
\* cleared; reqs holds the call.

MetaInputs ==
    { MetaParams(channelId, messageId, doneOne, doneAll, cancel) :
        channelId \in {Undefined, Null, Some("thread")},
        messageId \in {Undefined, Null, Some("reposted")},
        doneOne \in {Undefined, Null, Some(DoneOneCustomId(2))},
        doneAll \in {Undefined, Null, Some(DoneAllCustomId(2))},
        cancel \in {Undefined, Null, Some(CancelCustomId(2))} }

InitMeta ==
    /\ trades \in { StoredTrade(MaxStock),
                    updateTradeAnnouncementMetadata(StoredTrade(MaxStock), 1, ClearControls),
                    createTrade(<<>>, [guildId |-> "g1", userId |-> "u1", auec |-> 999,
                                       stock |-> 1, status |-> Null]).db }
    /\ orders = <<>>
    /\ guilds = [g \in Guilds |-> GuildConfig(Null)]
    /\ allowOffline = FALSE
    /\ guildRoles = <<>>
    /\ calls = <<>>
    /\ reqs = <<>>
    /\ remote = <<>>

\* One call, for a trade of the table or for an id that is not there.
MetaUpdate(tradeId, m) ==
    /\ reqs = <<>>
    /\ trades' = updateTradeAnnouncementMetadata(trades, tradeId, m)
    /\ reqs' = << [kind |-> "updateTradeAnnouncementMetadata", tid |-> tradeId, m |-> m] >>
    /\ UNCHANGED <<guilds, allowOffline, calls, orders, guildRoles, remote>>

NextMeta == \E tradeId \in 1 .. (Len(trades) + 1), m \in MetaInputs : MetaUpdate(tradeId, m)

SpecMeta == InitMeta /\ [][NextMeta]_vars

\* ------------------------------------------- the discount by itself
\* updateTradeDiscount called directly, as in SpecDb, next to /sell discount
\* requests of the owner, each with a percent inside the range and the two
\* just outside it, on one stored trade of an offline bot.

DiscountOptions == {MinPercent - 1, 10, MaxPercent + 1}

InitDiscount ==
    /\ trades = StoredTrade(1)
    /\ orders = <<>>
    /\ guilds = [g \in Guilds |-> IF g = "g1" THEN GuildConfig(Some("text")) ELSE GuildConfig(Null)]
    /\ allowOffline = TRUE
    /\ guildRoles = <<>>
    /\ calls = <<>>
    /\ reqs = <<>>
    /\ remote = <<>>

NextDiscount ==
    \/ \E t \in DOMAIN trades, p \in DiscountOptions :
          Len(calls) < MaxCalls /\ DbUpdateTradeDiscount(t, Some(p)) /\ DbEnv
    \/ \E t \in DOMAIN trades, p \in DiscountOptions :
          SellDiscountStart("g1", "u1", t, p) /\ Env /\ UNCHANGED remote
    \/ \E i \in DOMAIN reqs : SellDiscountUpdate(i) /\ Env /\ UNCHANGED remote

SpecDiscount == InitDiscount /\ [][NextDiscount]_vars

\* ------------------------------------------- the users table by itself
\* recordUser over a users table: remote is the table, a function from user
\* ids to rows, calls the parameters of the calls made so far.

\* params.x ?? null
OrNull(param) == IF param = Undefined THEN Null ELSE param

\* COALESCE(excluded.x, users.x)
Coalesce(excluded, stored) == IF excluded # Null THEN excluded ELSE stored

\* An upsert that overwrites the stored names with whatever comes in.
recordUser_Overwrites(users, p) ==
    (p.id :> [ username |-> p.username,
               display_name |-> OrNull(p.displayName),
               discriminator |-> OrNull(p.discriminator) ]) @@ users

recordUser(users, p) ==
    IF p.id \in DOMAIN users
      THEN [users EXCEPT ![p.id] =
              [ username |-> p.username,
                display_name |-> Coalesce(OrNull(p.displayName), @.display_name),
                discriminator |-> Coalesce(OrNull(p.discriminator), @.discriminator) ]]
      ELSE (p.id :> [ username |-> p.username,
                      display_name |-> OrNull(p.displayName),
                      discriminator |-> OrNull(p.discriminator) ]) @@ users

UserInputs ==
    { [id |-> id, username |-> username, displayName |-> displayName,
       discriminator |-> discriminator] :
        id \in Users, username \in {"alice", "bob"},
        displayName \in {Undefined, Some("Alice"), Some("Al")},
        discriminator \in {Null, Some("0001")} }

InitUsers ==
    /\ trades = <<>>
    /\ orders = <<>>
    /\ guilds = [g \in Guilds |-> GuildConfig(Null)]
    /\ allowOffline = FALSE
    /\ guildRoles = <<>>
    /\ calls = <<>>
    /\ reqs = <<>>
    /\ remote = <<>>

RecordUser(p) ==
    /\ Len(calls) < MaxCalls
    /\ remote' = recordUser(remote, p)
    /\ calls' = Append(calls, p)
    /\ UNCHANGED <<trades, guilds, allowOffline, reqs, orders, guildRoles>>

NextUsers == \E p \in UserInputs : RecordUser(p)

SpecUsers == InitUsers /\ [][NextUsers]_vars

\* --------------------------------------------------------------- properties

Terminal == {"selled", "complete", "cancelled", "expired"}
DoneKinds == {"sellDone", "buttonDone"}

ControlsNull(row) ==
    /\ row.done_one_button_custom_id = Null
    /\ row.done_all_button_custom_id = Null
    /\ row.cancel_button_custom_id = Null

Marked(r) == r.reply # <<>> /\ r.reply[1] = "Marked as done"

\* Request i takes the step that leaves pc = from.
Leaves(i, from) == reqs[i].pc = from /\ reqs'[i].pc # from

\* C1: every trade has stock >= 0, and a trade that is sold out ('selled')
\* has stock 0.
C1_StockNonNegative ==
    \A t \in DOMAIN trades :
        /\ trades[t].stock >= 0
        /\ trades[t].status = "selled" => trades[t].stock = 0

\* C2: concurrent done requests on one trade.  (a) Stock only ever changes
\* by the guarded decrement of a done request that is at its reduce step:
\* the trade is open, holds at least the amount, loses exactly the amount,
\* and the request leaves the step, so it decrements once.  (b) Of two
\* finished done(1) requests that both validated against the trade at
\* stock 1, never both succeed and each is answered "Marked ..." or "Unable
\* to mark ..."; unless a cancel or a third done request took the item,
\* exactly one of the two succeeded.
C2_DecrementIsGuarded ==
    \A t \in DOMAIN trades :
        trades'[t].stock # trades[t].stock =>
            \E i \in DOMAIN reqs :
                /\ reqs[i].kind \in DoneKinds /\ reqs[i].tid = t
                /\ Leaves(i, "reduce")
                /\ trades[t].status = "open"
                /\ trades[t].stock >= reqs[i].amount
                /\ trades'[t].stock = trades[t].stock - reqs[i].amount

C2_Raced(i) ==
    /\ reqs[i].kind \in DoneKinds /\ reqs[i].pc = "done"
    /\ reqs[i].trade # Null /\ reqs[i].trade[1].stock = 1 /\ reqs[i].amount = 1

\* Request k took the last item of its trade.
C2_SoldOutBy(k) ==
    /\ reqs[k].kind \in DoneKinds
    /\ \/ reqs[k].pc = "clear"
       \/ reqs[k].reply = <<"Marked as done", "Trade is now marked as sold out.">>

C2_OneOfTwo ==
    \A i, j \in DOMAIN reqs :
        (i < j /\ reqs[i].tid = reqs[j].tid /\ C2_Raced(i) /\ C2_Raced(j)) =>
            /\ ~(Marked(reqs[i]) /\ Marked(reqs[j]))
            /\ Marked(reqs[i]) \/ reqs[i].reply = UnableReply
            /\ Marked(reqs[j]) \/ reqs[j].reply = UnableReply
            /\ trades[reqs[i].tid].status # "cancelled" =>
                  \/ Marked(reqs[i]) \/ Marked(reqs[j])
                  \/ \E k \in DOMAIN reqs \ {i, j} :
                        reqs[k].tid = reqs[i].tid /\ C2_SoldOutBy(k)

C2_ConcurrentDone == []C2_OneOfTwo /\ [][C2_DecrementIsGuarded]_vars

C2_Witness ==
    \E i, j \in DOMAIN reqs :
        /\ i < j /\ reqs[i].tid = reqs[j].tid /\ C2_Raced(i) /\ C2_Raced(j)
        /\ Marked(reqs[j]) /\ reqs[i].reply = UnableReply
        /\ trades[reqs[i].tid].stock = 0

\* C3: once the status of a trade is terminal, no step changes it.
C3_TerminalIsFinal ==
    [][\A t \in DOMAIN trades :
          trades[t].status \in Terminal => trades'[t].status = trades[t].status]_vars

\* C4: a trade that is not open has its three control ids null, in every
\* state, between the statements of a request included.
C4_ControlsOnlyWhileOpen ==
    \A t \in DOMAIN trades : trades[t].status # "open" => ControlsNull(trades[t])

\* C5: a trade with stock 0 is sold out, complete or cancelled.
C5_ZeroStockIsClosed ==
    \A t \in DOMAIN trades :
        trades[t].stock = 0 => trades[t].status \in {"selled", "complete", "cancelled"}

\* C6: createTrade with a price or a stock that is not positive fails and
\* inserts no row.
C6_CreateRejectsNonPositive ==
    \A k \in DOMAIN calls :
        (/\ calls[k].op = "createTrade"
         /\ (calls[k].auec <= 0 \/ calls[k].stock <= 0)) =>
            /\ calls[k].threw
            /\ PostOf(k) = calls[k].pre

\* C7: reduceTradeStock on a trade that is not open, or for more than its
\* stock, returns no row and leaves the table as it was (every column of the
\* row with it), however often the call is repeated; for an amount of at
\* least 1 the answer is null, not an exception.
C7_Rejected(k) ==
    /\ calls[k].op = "reduceTradeStock"
    /\ calls[k].tid \in DOMAIN calls[k].pre
    /\ \/ calls[k].pre[calls[k].tid].status # "open"
       \/ calls[k].amount > calls[k].pre[calls[k].tid].stock

C7_RejectedReduceChangesNothing ==
    \A k \in DOMAIN calls :
        C7_Rejected(k) =>
            /\ calls[k].row = Null
            /\ PostOf(k) = calls[k].pre
            /\ calls[k].amount >= 1 => ~calls[k].threw

C7_Witness ==
    \E k \in DOMAIN calls :
        /\ k + 1 \in DOMAIN calls
        /\ C7_Rejected(k) /\ C7_Rejected(k + 1)
        /\ calls[k].amount >= 1 /\ calls[k + 1].amount >= 1
        /\ calls[k].tid = calls[k + 1].tid
        /\ calls[k].pre[calls[k].tid].status # "open"
        /\ trades = calls[k].pre

\* C8: the reduce step of a done request of the owner on an open trade:
\* with amount < stock it lowers stock by the amount, the trade stays open
\* with its control ids, and the request reports the remaining stock; with
\* amount = stock it leaves stock 0 and status 'selled' in that one step,
\* and the step of the request that follows leaves the three control ids
\* null.
C8_Reduce(i) ==
    LET t == reqs[i].tid
        a == reqs[i].amount
    IN (Leaves(i, "reduce") /\ trades[t].status = "open") =>
          /\ a < trades[t].stock =>
                /\ trades'[t] = [trades[t] EXCEPT !.stock = @ - a]
                /\ reqs'[i].pc \in {"patch", "thread", "done"} /\ Marked(reqs'[i])
          /\ a = trades[t].stock =>
                /\ trades'[t] = [trades[t] EXCEPT !.stock = 0, !.status = "selled"]
                /\ reqs'[i].pc = "clear"

C8_Clear(i) ==
    (reqs[i].kind \in DoneKinds /\ Leaves(i, "clear")) =>
        /\ ControlsNull(trades'[reqs[i].tid])
        /\ reqs'[i].pc \in {"patch", "thread", "done"} /\ Marked(reqs'[i])

C9_Stored(i) ==
    LET row == trades'[reqs[i].tid]
        created == reqs[i].trade[1]
    IN (reqs[i].kind = "sellCreate" /\ Leaves(i, "controls")) =>
          /\ row.done_one_button_custom_id # Null
          /\ row.cancel_button_custom_id # Null
          /\ created.stock = 1 => row.done_all_button_custom_id = Null
          /\ created.stock > 1 => row.done_all_button_custom_id # Null

C10_RoundTrip ==
    (/\ Len(calls) = 3
     /\ calls[2].op = "updateTradeDiscount" /\ calls[3].op = "updateTradeDiscount"
     /\ calls[2].tid = calls[3].tid /\ calls[2].tid \in DOMAIN calls[2].pre
     /\ calls[2].percent # Null /\ calls[2].percent[1] \in MinPercent .. MaxPercent
     /\ calls[3].percent = Null) =>
        LET before == calls[2].pre[calls[2].tid]
            after == trades[calls[2].tid]
        IN /\ calls[2].row # Null /\ calls[3].row = Some(after)
           /\ after.discount_percent = Null
           /\ after.discounted_auec = Null
           /\ after.auec = before.auec
           /\ after.stock = before.stock
           /\ after.status = before.status

C10_Witness ==
    /\ Len(calls) = 3
    /\ calls[2].percent = Some(33) /\ calls[3].percent = Null
    /\ calls[2].row # Null /\ calls[2].row[1].discounted_auec = Some(669)
    /\ trades[1].auec = 999
    /\ trades[1].discounted_auec = Null

\* C11: for every price and every percent p in 0..95, updateTradeDiscount
\* stores and returns discounted_auec = price * (100 - p) / 100 rounded to
\* the nearest integer, computed from the price the row held before the
\* call; price 1000 with p 10 gives 900 and price 999 with p 33 gives 669.
C11_Applied(k) ==
    /\ calls[k].op = "updateTradeDiscount"
    /\ calls[k].tid \in DOMAIN calls[k].pre
    /\ calls[k].percent # Null
    /\ calls[k].percent[1] \in MinPercent .. MaxPercent

C15_ShouldGrant(c) ==
    LET it == c.interaction[1]
    IN /\ it.guild_id # Null
       /\ it.member # Null
       /\ LET m == it.member[1]
               held == { m.roles[k] : k \in DOMAIN m.roles }
               adminRole == c.pre.guilds[it.guild_id[1]].admin_role_id
               moderators == { c.pre.guildRoles[k][2] :
                                 k \in { n \in DOMAIN c.pre.guildRoles :
                                           c.pre.guildRoles[n][1] = it.guild_id[1] } }
           IN \/ m.permissions \in { Some(8), Some(12) }
              \/ adminRole # Null /\ adminRole[1] \in held
              \/ c.allowModeratorRoles /\ (moderators \cap held) # {}

C15_AccessRule ==
    \A k \in DOMAIN calls :
        calls[k].op = "ensureAdminAccess" =>
            /\ calls[k].result[1].ok = C15_ShouldGrant(calls[k])
            /\ ~calls[k].result[1].ok => calls[k].result[1].response # <<>>
            /\ RolesPostOf(k) = calls[k].pre

C15_Witness ==
    \E k \in DOMAIN calls :
        /\ calls[k].op = "ensureAdminAccess"
        /\ calls[k].result[1].ok
        /\ calls[k].allowModeratorRoles
        /\ calls[k].interaction[1].member[1].permissions = Some(16)
        /\ calls[k].interaction[1].member[1].roles = <<"r1", "r2">>
        /\ guilds["g1"].admin_role_id = Null
        /\ guildRoles = << <<"g1", "r2">> >>

\* C20: after addTradeRole the table holds exactly one row for the pair,
\* so a second call with the same (guild, role) changes nothing; and
\* removeTradeRole of a role that is not configured completes without
\* error and leaves the table as it was.
C20_Rows(table, guildId, roleId) ==
    { n \in DOMAIN table : table[n] = <<guildId, roleId>> }

C20_IdempotentRoles ==
    \A k \in DOMAIN calls :
        LET c == calls[k]
            pre == c.pre.guildRoles
            post == RolesPostOf(k).guildRoles
        IN /\ c.op = "addTradeRole" =>
                /\ ~c.threw
                /\ Cardinality(C20_Rows(post, c.guild, c.role[1])) = 1
                /\ C20_Rows(pre, c.guild, c.role[1]) # {} => post = pre
           /\ (c.op = "removeTradeRole" /\ C20_Rows(pre, c.guild, c.role[1]) = {}) =>
                /\ ~c.threw
                /\ post = pre

C20_Witness ==
    /\ Len(calls) = 3
    /\ calls[1].op = "addTradeRole" /\ calls[2].op = "addTradeRole"
    /\ calls[1].guild = "g1" /\ calls[2].guild = "g1"
    /\ calls[1].role = Some("r1") /\ calls[2].role = Some("r1")
    /\ calls[3].op = "removeTradeRole" /\ calls[3].guild = "g1" /\ calls[3].role = Some("r2")
    /\ guildRoles = << <<"g1", "r1">> >>

\* C16: once every request on a trade has finished, all of them done or
\* cancel requests, at least one of them applied and none with a failed or
\* skipped patch, the embed (status label, stock) and the buttons last
\* applied to the announcement are those of the persisted row.
C16_Settled(t) ==
    LET rs == { i \in DOMAIN reqs : reqs[i].tid = t }
    IN /\ SellKey(t) \in DOMAIN remote
       /\ \A i \in rs :
             /\ reqs[i].kind \in {"sellDone", "buttonDone", "buttonCancel", "tradeCancel"}
             /\ reqs[i].pc = "done"
             /\ ~reqs[i].patchError /\ ~reqs[i].missing
       /\ \E i \in rs : Marked(reqs[i]) \/ reqs[i].reply = <<"has been cancelled.">>

C16_AnnouncementReflectsTrade ==
    \A t \in DOMAIN trades :
        C16_Settled(t) =>
            /\ remote[SellKey(t)].embed = buildTradeEmbed(trades[t], Null)
            /\ remote[SellKey(t)].components = resolveTradeComponents(trades[t])

\* C17 (as stated): a valid /buy create in a guild with no trade channel
\* persists the order, open and with a null announcement pointer.
C17_NoChannel(r) ==
    /\ r.kind = "buyCreate"
    /\ guilds[r.guild].trade_channel_id = Null
    /\ r.reply # <<"Provide a valid price greater than 0.">>
    /\ r.reply # <<"If provided, the amount must be a positive integer.">>

C17_PersistsWithoutChannel ==
    [][ Len(reqs') = Len(reqs) + 1 /\ C17_NoChannel(reqs'[Len(reqs')])
          => /\ Len(orders') = Len(orders) + 1
             /\ orders'[Len(orders')].status = "open"
             /\ orders'[Len(orders')].announcement_channel_id = Null ]_vars

\* C17 (amended): a valid /buy create in a guild with no trade channel is
\* answered with "No trade channel configured." and returns before the
\* INSERT: no row is persisted and nothing is announced.
C17_RejectsWithoutChannel ==
    [][ Len(reqs') = Len(reqs) + 1 /\ C17_NoChannel(reqs'[Len(reqs')])
          => /\ reqs'[Len(reqs')].pc = "done"
             /\ reqs'[Len(reqs')].reply = <<"No trade channel configured.">>
             /\ orders' = orders
             /\ remote' = remote ]_vars

C17_Witness ==
    \E i \in DOMAIN reqs :
        /\ C17_NoChannel(reqs[i])
        /\ reqs[i].guild = "g2"
        /\ reqs[i].reply = <<"No trade channel configured.">>
        /\ \A k \in DOMAIN orders : orders[k].guild_id # "g2"

\* C18: whatever way /buy done, /buy done todos, /buy cancel and the two
\* buttons interleave, the status of a buy order changes only from open to
\* fulfilled or from open to cancelled, so a status that is not open never
\* changes again; no order disappears.
C18_Step(o) ==
    /\ o \in DOMAIN orders'
    /\ orders'[o].status \in buy_order_status
    /\ orders'[o].status # orders[o].status
         => /\ orders[o].status = "open"
            /\ orders'[o].status \in {"fulfilled", "cancelled"}

C18_BuyStatusMonotonic == [][\A o \in DOMAIN orders : C18_Step(o)]_vars

\* Two requests had both read the order as open; one moved it, the other's
\* status update was not applied.
C18_Witness ==
    \E i, j \in DOMAIN reqs :
        /\ i # j /\ reqs[i].tid = reqs[j].tid
        /\ reqs[i].kind \in {"buyDone", "buyButtonDone"}
        /\ reqs[i].pc = "done" /\ reqs[i].reply = <<"marked as fulfilled.">>
        /\ reqs[j].kind \in {"buyCancel", "buyButtonCancel"}
        /\ reqs[j].reply = BuyRejectedReply(reqs[j])
        /\ orders[reqs[i].tid].status = "fulfilled"

\* C12: for the done, cancel, discount and buy-order transitions, a failed
\* patch of the announcement or a failed update of the forum thread after the
\* committed transition changes nothing that is persisted, and the handler
\* returns its normal confirmation with the matching "Warning:" line.
C12_Confirmations ==
    { <<"Marked as done", "Remaining stock">>,
      <<"Marked as done", "Trade is now marked as sold out.">>,
      <<"has been cancelled.">>, <<"Removed the discount">>, <<"discounted">>,
      <<"marked as fulfilled.">> }

C12_Has(r, line) == \E k \in DOMAIN r.notes : r.notes[k] = line

C12_PatchWarning(r) ==
    IF r.kind \in BuyKinds THEN "Warning: Failed to update the buy order announcement."
                           ELSE "Warning: Failed to update the trade announcement."

C12_ThreadWarning(r) ==
    IF r.kind \in BuyKinds THEN "Warning: Failed to update the buy order forum thread."
                           ELSE "Warning: Failed to update the trade forum thread."

C12_Step(i) ==
    Leaves(i, "patch") \/ Leaves(i, "thread")
      => /\ trades' = trades /\ orders' = orders
         /\ reqs'[i].reply = reqs[i].reply
         /\ reqs'[i].reply \in C12_Confirmations
         /\ reqs'[i].pc = "done"
              => /\ reqs'[i].patchError => C12_Has(reqs'[i], C12_PatchWarning(reqs'[i]))
                 /\ reqs'[i].threadError => C12_Has(reqs'[i], C12_ThreadWarning(reqs'[i]))

C12_RemoteFailureIsAWarning == [][\A i \in DOMAIN reqs : C12_Step(i)]_vars

\* A cancel of the trade and a transition of the buy order have both
\* returned after their patch failed, the cancel after its thread update
\* failed as well; both records are as the transitions left them.
C12_Witness ==
    \E i, j \in DOMAIN reqs :
        /\ reqs[i].kind \in {"buttonCancel", "tradeCancel"} /\ reqs[i].pc = "done"
        /\ reqs[i].patchError /\ reqs[i].threadError
        /\ reqs[i].notes = <<C12_PatchWarning(reqs[i]), C12_ThreadWarning(reqs[i])>>
        /\ trades[reqs[i].tid].status = "cancelled"
        /\ reqs[j].kind \in BuyKinds /\ reqs[j].pc = "done"
        /\ reqs[j].patchError
        /\ C12_Has(reqs[j], C12_PatchWarning(reqs[j]))
        /\ orders[reqs[j].tid].status # "open"

\* C14: the owner-only actions (/sell done, /sell discount, the done and
\* cancel buttons of a trade, /buy done, /buy cancel and the buttons of a buy
\* order) reject a caller who is not the creator of the record, whatever
\* privileges the caller holds, and leave the record unchanged.
C14_OwnerOnly ==
    {"sellDone", "sellDiscount", "buttonDone", "buttonCancel",
     "buyDone", "buyCancel", "buyButtonDone", "buyButtonCancel"}

C14_Target(r) ==
    IF r.kind \in BuyKinds THEN getBuyOrderById(orders, r.tid)
                           ELSE getTradeById(trades, r.tid)

C14_NotCreator(r) ==
    /\ r.kind \in C14_OwnerOnly
    /\ ~Missing(C14_Target(r), r.guild)
    /\ C14_Target(r)[1].user_id # r.user

C14_OwnerReplies ==
    { <<"You can only manage your own trades.">>,
      <<"Only the seller can manage this trade.">>,
      <<"You can only manage your own buy orders.">>,
      <<"Only the buyer can manage this order.">> }

C14_Privileged(r) ==
    /\ memberHasAdministrator(MemberOf(r.user))
    /\ memberHasRole(MemberOf(r.user), guilds[r.guild].admin_role_id[1])
    /\ \E k \in DOMAIN guildRoles : /\ guildRoles[k][1] = r.guild
                                    /\ memberHasRole(MemberOf(r.user), guildRoles[k][2])
    /\ ensureAdminAccess(InteractionOf(r.guild, r.user), FALSE, guilds, guildRoles).ok

C14_OwnerOnlyActions ==
    [][ /\ Len(reqs') = Len(reqs) + 1
           /\ C14_NotCreator(reqs'[Len(reqs')])
          => /\ reqs'[Len(reqs')].pc = "done"
             /\ reqs'[Len(reqs')].reply \in C14_OwnerReplies
             /\ trades' = trades /\ orders' = orders
        /\ \A i \in DOMAIN reqs :
              reqs[i].kind \in C14_OwnerOnly /\ (trades' # trades \/ orders' # orders)
              /\ reqs'[i] # reqs[i]
                => C14_Target(reqs[i])[1].user_id = reqs[i].user ]_vars

\* The privileged caller was turned away from a trade and from a buy order
\* that are not theirs, and both records are still open.
C14_Witness ==
    \E i, j \in DOMAIN reqs :
        /\ reqs[i].kind \in {"sellDone", "sellDiscount", "buttonDone", "buttonCancel"}
        /\ reqs[j].kind \in {"buyDone", "buyCancel", "buyButtonDone", "buyButtonCancel"}
        /\ \A k \in {i, j} : /\ reqs[k].user = "u2"
                             /\ C14_Privileged(reqs[k])
                             /\ reqs[k].reply \in C14_OwnerReplies
        /\ trades[reqs[i].tid].status = "open"
        /\ orders[reqs[j].tid].status = "open"

\* C13: a done, discount or cancel request (command or button) that names a
\* trade or buy order which does not exist, belongs to another guild, is not
\* owned by the caller (the administrative /trade cancel has no owner check)
\* or is not open is answered with an explanation and goes no further:
\* nothing persisted changes and nothing is sent to Discord.
C13_Kinds == C14_OwnerOnly \cup {"tradeCancel"}

C13_Invalid(r) ==
    LET target == C14_Target(r)
    IN \/ Missing(target, r.guild)
       \/ r.kind # "tradeCancel" /\ target[1].user_id # r.user
       \/ target[1].status # "open"

C13_InvalidRequestsAreRejected ==
    [][ ( /\ Len(reqs') = Len(reqs) + 1
          /\ reqs'[Len(reqs')].kind \in C13_Kinds
          /\ C13_Invalid(reqs'[Len(reqs')]) )
          => /\ reqs'[Len(reqs')].pc = "done"
             /\ reqs'[Len(reqs')].reply # <<>>
             /\ reqs'[Len(reqs')].reply \notin C12_Confirmations
             /\ trades' = trades /\ orders' = orders /\ remote' = remote ]_vars

\* C19: a bulk operation (/sell done todos, /buy done todos) attempts every
\* record of the list it fetched at its start exactly once and in the order
\* of the list, whatever was rejected or failed on the way, and its summary
\* names every record: as updated or in one of its failure lines.
C19_ListedIds(r) == [k \in DOMAIN r.list |-> r.list[k].id]

C19_Finished(r) ==
    r.kind \in {"sellDoneAll", "buyDoneAll"} /\ r.pc = "done" /\ r.list # <<>>

C19_BulkAttemptsAndReports ==
    \A i \in DOMAIN reqs :
        C19_Finished(reqs[i])
          => /\ reqs[i].summary.attempted = C19_ListedIds(reqs[i])
             /\ \A k \in DOMAIN reqs[i].list : reqs[i].list[k].id \in ReportedIds(reqs[i])

\* C30: the controls of a trade are none when it is not open, has no stock
\* or lacks the done-one or the cancel control id; otherwise a "Done 1 item"
\* button, a "Done all" button exactly when stock > 1 and a done-all control
\* id is stored, and a "Cancel" button, each with the stored control id.  The
\* controls of a buy order are none when it is not open or lacks a control
\* id, otherwise exactly a "Mark done" and a "Cancel" button.
C30_Stored(id) == id # Null /\ id # Some(<<>>)

C30_TradeControls(trade) ==
    IF \/ trade.status # "open"
       \/ trade.stock <= 0
       \/ ~C30_Stored(trade.done_one_button_custom_id)
       \/ ~C30_Stored(trade.cancel_button_custom_id)
      THEN <<>>
    ELSE IF trade.stock > 1 /\ C30_Stored(trade.done_all_button_custom_id)
      THEN << <<"Done 1 item", trade.done_one_button_custom_id[1]>>,
              <<"Done all", trade.done_all_button_custom_id[1]>>,
              <<"Cancel", trade.cancel_button_custom_id[1]>> >>
    ELSE << <<"Done 1 item", trade.done_one_button_custom_id[1]>>,
            <<"Cancel", trade.cancel_button_custom_id[1]>> >>

C30_OrderControls(order) ==
    IF \/ order.status # "open"
       \/ ~C30_Stored(order.done_button_custom_id)
       \/ ~C30_Stored(order.cancel_button_custom_id)
      THEN <<>>
      ELSE << <<"Mark done", order.done_button_custom_id[1]>>,
              <<"Cancel", order.cancel_button_custom_id[1]>> >>

C30_RenderedControls ==
    \A k \in DOMAIN remote :
        IF k[1] = "resolveBuyComponents"
          THEN remote[k] = C30_OrderControls(orders[k[2]])
          ELSE remote[k] = C30_TradeControls(trades[k[2]])

\* An open trade with two items and its three stored ids, rendered by both
\* functions with three buttons.
C30_Witness ==
    /\ trades # <<>>
    /\ trades[1].status = "open" /\ trades[1].stock = 2
    /\ trades[1].done_all_button_custom_id = Some(OtherCustomId)
    /\ DOMAIN remote = {RenderKey("resolveTradeComponents", 1), RenderKey("buildActiveComponents", 1)}
    /\ \A k \in DOMAIN remote : Len(remote[k]) = 3 /\ remote[k][2] = <<"Done all", OtherCustomId>>

\* C29: in the reply of a single-record transition the warning lines come in
\* the order announcement patch, control metadata, forum thread, whichever of
\* the three steps failed, and a warning line is there exactly when its step
\* failed.
C29_Transitions ==
    {"sellDone", "buttonDone", "buttonCancel", "tradeCancel",
     "buyDone", "buyCancel", "buyButtonDone", "buyButtonCancel"}

C29_MetadataWarning == "Warning: Failed to update stored control metadata."

C29_IsWarning(r, line) ==
    line \in {C12_PatchWarning(r), C29_MetadataWarning, C12_ThreadWarning(r)}

C29_Warnings(r) == SelectSeq(r.notes, LAMBDA line : C29_IsWarning(r, line))

C29_Expected(r) ==
    (IF r.patchError THEN <<C12_PatchWarning(r)>> ELSE <<>>)
    \o (IF r.metadataError THEN <<C29_MetadataWarning>> ELSE <<>>)
    \o (IF r.threadError THEN <<C12_ThreadWarning(r)>> ELSE <<>>)

\* A failure is recorded by the step that failed and by no other.
C29_Recorded(i) ==
    /\ reqs'[i].patchError # reqs[i].patchError => Leaves(i, "patch") /\ remote' = remote
    /\ reqs'[i].metadataError # reqs[i].metadataError
         => (Leaves(i, "clear") \/ Leaves(i, "buyClear")) /\ trades' = trades /\ orders' = orders
    /\ reqs'[i].threadError # reqs[i].threadError => Leaves(i, "thread") /\ remote' = remote

C29_Step(i) ==
    /\ C29_Recorded(i)
    /\ (reqs[i].pc # "done" /\ reqs'[i].pc = "done" /\ reqs'[i].reply \in C12_Confirmations)
         => C29_Warnings(reqs'[i]) = C29_Expected(reqs'[i])

C29_WarningsInOrder ==
    [][\A i \in DOMAIN reqs : reqs[i].kind \in C29_Transitions => C29_Step(i)]_vars

\* A button of the trade has returned after all three steps failed, a
\* buy-order command after only the first and the last did.
C29_Witness ==
    \E i, j \in DOMAIN reqs :
        /\ reqs[i].kind \in {"buttonDone", "buttonCancel"} /\ reqs[i].pc = "done"
        /\ reqs[i].notes = <<"Warning: Failed to update the trade announcement.",
                             C29_MetadataWarning,
                             "Warning: Failed to update the trade forum thread.">>
        /\ reqs[j].kind \in {"buyDone", "buyCancel"} /\ reqs[j].pc = "done"
        /\ reqs[j].patchError /\ ~reqs[j].metadataError /\ reqs[j].threadError
        /\ reqs[j].notes = <<"Warning: Failed to update the buy order announcement.",
                             "Warning: Failed to update the buy order forum thread.">>

\* C28: after a successful transition an offline bot makes no call to
\* Discord; an online bot whose record has no stored announcement pointer
\* attempts no patch and no post and says "No stored announcement message to
\* update."; an online bot whose record has the pointer issues exactly one
\* patch, against the stored channel and message id.
C28_Kinds == C29_Transitions \cup {"sellDiscount"}

C28_Record(r) == IF r.kind \in BuyKinds THEN orders[r.tid] ELSE trades[r.tid]

C28_Patches(r) == SelectSeq(r.sent, LAMBDA call : call[1] = "patch")

C28_Posts(r) == SelectSeq(r.sent, LAMBDA call : call[1] = "post")

C28_Succeeded(r) ==
    r.kind \in C28_Kinds /\ r.pc = "done" /\ r.reply \in C12_Confirmations

C28_Holds(r) ==
    LET record == C28_Record(r)
    IN IF allowOffline
         THEN r.sent = <<>>
       ELSE IF record.announcement_channel_id = Null \/ record.announcement_message_id = Null
         THEN /\ C28_Patches(r) = <<>> /\ C28_Posts(r) = <<>>
              /\ C12_Has(r, "No stored announcement message to update.")
       ELSE /\ C28_Patches(r) = << <<"patch", record.announcement_channel_id[1],
                                             record.announcement_message_id[1]>> >>
            /\ C28_Posts(r) = <<>>
            /\ ~C12_Has(r, "No stored announcement message to update.")

C28_RemoteCallsAfterTransition ==
    \A i \in DOMAIN reqs : C28_Succeeded(reqs[i]) => C28_Holds(reqs[i])

\* Online, both records announced in threads: a cancel button has patched
\* the announcement of the trade once and updated its thread, and /buy done
\* has patched the announcement of the order once although the patch failed.
C28_Witness ==
    \E i, j \in DOMAIN reqs :
        /\ ~allowOffline
        /\ C28_Succeeded(reqs[i]) /\ reqs[i].kind = "buttonCancel"
        /\ Len(reqs[i].sent) = 2
        /\ reqs[i].sent[1] = <<"patch", "thread", "message">>
        /\ reqs[i].sent[2][1] = "thread"
        /\ C28_Succeeded(reqs[j]) /\ reqs[j].kind = "buyDone" /\ reqs[j].patchError
        /\ C28_Patches(reqs[j]) = << <<"patch", "thread", "message">> >>

\* C23: whenever a trade or a buy order leaves open by completion or by
\* cancellation while the bot is online, the trade channel is a forum and
\* the record was announced in a channel other than the configured one, the
\* handler issues a thread update that renames the thread and sets archived
\* and locked; when the announcement channel is the configured channel or
\* null, or the trade channel is a text channel, it issues none.  This holds
\* on every path: the buttons, /sell done, /sell done todos, /buy done,
\* /buy cancel, /trade cancel.
C23_Closings ==
    { <<"Marked as done", "Trade is now marked as sold out.">>,
      <<"has been cancelled.">>, <<"marked as fulfilled.">> }

C23_Closed(r) ==
    /\ r.pc = "done"
    /\ \/ r.kind \in C29_Transitions /\ r.reply \in C23_Closings
       \/ r.kind \in {"sellDoneAll", "buyDoneAll"} /\ r.summary.updated # <<>>

C23_RecordOf(r) ==
    LET id == IF r.kind \in {"sellDoneAll", "buyDoneAll"} THEN r.summary.updated[1] ELSE r.tid
    IN IF r.kind \in BuyKinds THEN orders[id] ELSE trades[id]

C23_IsThread(r) ==
    LET record == C23_RecordOf(r)
        tradeConfig == guilds[r.guild]
    IN /\ ~allowOffline
       /\ tradeConfig.trade_channel_type = Some("forum")
       /\ record.announcement_channel_id # Null
       /\ record.announcement_channel_id # tradeConfig.trade_channel_id

C23_ThreadUpdates(r) == SelectSeq(r.sent, LAMBDA call : call[1] = "thread")

C23_Holds(r) ==
    LET updates == C23_ThreadUpdates(r)
    IN IF C23_IsThread(r)
         THEN /\ Len(updates) = 1
              /\ updates[1][2] = C23_RecordOf(r).announcement_channel_id[1]
              /\ updates[1][3].suffix # Null
              /\ updates[1][4]
         ELSE updates = <<>>

C23_ThreadFollowsEveryClose ==
    \A i \in DOMAIN reqs : C23_Closed(reqs[i]) => C23_Holds(reqs[i])

\* ---- C25 ----
\* C25: a discount is never written to a trade whose persisted status is no
\* longer open: no step changes discount_percent or discounted_auec of a
\* row that is not open when the step is taken.
C25_DiscountOf(row) == <<row.discount_percent, row.discounted_auec>>

C25_DiscountOnlyWhileOpen ==
    [][\A t \in DOMAIN trades :
          trades[t].status # "open" =>
              C25_DiscountOf(trades'[t]) = C25_DiscountOf(trades[t])]_vars

\* ---- C27 ----
C27_Dones == {"sellDone", "buttonDone"}

\* The guarded decrement of request i would be refused now.
C27_Refused(i) ==
    /\ reqs[i].kind \in C27_Dones
    /\ reqs[i].pc = "reduce"
    /\ reduceTradeStock(trades, reqs[i].tid, reqs[i].amount).row = Null

\* C27: a done request whose guarded stock reduction is refused returns at
\* that step with the 'Unable to mark ...' reply, having changed no trade
\* and issued no remote call, and a request that has made its one call of
\* reduceTradeStock never makes another.
C27_FailedReduceIsFinal ==
    [][\A i \in DOMAIN reqs :
          /\ (C27_Refused(i) /\ reqs'[i] # reqs[i]) =>
                /\ reqs'[i] = Reject(reqs[i], UnableReply)
                /\ reqs'[i].sent = <<>>
                /\ trades' = trades
                /\ remote' = remote
          /\ (reqs[i].kind \in C27_Dones /\ reqs[i].pc # "reduce") =>
                reqs'[i].pc # "reduce"]_vars

\* A 'done all' press that read stock 2 was refused after a concurrent done
\* lowered the stock to 1, and the trade is still open with that stock.
C27_Witness ==
    \E i \in DOMAIN reqs :
        /\ reqs[i].kind = "buttonDone"
        /\ reqs[i].amount = 2
        /\ reqs[i].pc = "done"
        /\ reqs[i].reply = UnableReply
        /\ reqs[i].tid \in DOMAIN trades
        /\ trades[reqs[i].tid].status = "open"
        /\ trades[reqs[i].tid].stock = 1
        /\ trades[reqs[i].tid].done_one_button_custom_id # Null

\* ---- C26 ----
\* The embed and the thread name rendered from the row the update of
\* request r returned.
C26_Embed(r) ==
    IF r.kind \in BuyKinds
      THEN buildBuyOrderEmbed(r.updated[1], Null)
      ELSE buildTradeEmbed(r.updated[1],
                           IF r.kind \in {"buttonCancel", "tradeCancel"}
                             THEN Some("Cancelled") ELSE Null)

C26_ThreadName(r) ==
    IF r.kind \in BuyKinds THEN buildBuyThreadName(r.updated[1])
                           ELSE buildSellThreadName(r.updated[1])

C26_Archive(r) ==
    IF r.kind \in BuyKinds THEN shouldArchiveBuyThread(r.updated[1].status)
                           ELSE shouldArchiveSellThread(r.updated[1].status)

\* The call request r issued last is rendered from the row it holds; msg is
\* the announcement after the call.
C26_FromUpdated(r, call, msg) ==
    /\ call[1] \in {"patch", "thread"}
    /\ call[1] = "patch" =>
          /\ call = PatchCall(r.updated[1])
          /\ ~r.patchError => msg.embed = C26_Embed(r)
    /\ call[1] = "thread" =>
          /\ call[3] = C26_ThreadName(r)
          /\ call[4] = C26_Archive(r)
          /\ ~r.threadError => msg.thread # Null /\ msg.thread[1].name = C26_ThreadName(r)

\* C26: a transition request issues a remote call only while it holds the
\* row its persistence update returned, one call per step, and the patch
\* and the thread update are rendered from that row; a request that returns
\* without such a row has issued no remote call.
C26_RemoteAfterUpdate ==
    [][\A i \in DOMAIN reqs :
          reqs[i].kind \in C28_Kinds =>
              /\ (reqs[i].pc # "done" /\ reqs[i].updated = Null /\ reqs'[i].pc = "done") =>
                    reqs'[i].sent = <<>>
              /\ reqs[i].pc = "done" => reqs'[i] = reqs[i]
              /\ reqs'[i].sent # reqs[i].sent =>
                    /\ reqs[i].updated # Null
                    /\ reqs'[i].sent = Append(reqs[i].sent, reqs'[i].sent[Len(reqs'[i].sent)])
                    /\ C26_FromUpdated([reqs'[i] EXCEPT !.updated = reqs[i].updated],
                                       reqs'[i].sent[Len(reqs'[i].sent)],
                                       remote'[Key(reqs[i])])]_vars

\* A done button that sold the trade out while a second request was in
\* progress has patched the announcement and the thread from the row its
\* reduction returned, not from the open row it read.
C26_Witness ==
    \E i \in DOMAIN reqs :
        /\ Len(reqs) = 2
        /\ reqs[i].kind = "buttonDone"
        /\ reqs[i].pc = "done"
        /\ reqs[i].trade # Null
        /\ reqs[i].trade[1].status = "open"
        /\ Len(reqs[i].sent) = 2
        /\ ~reqs[i].patchError /\ ~reqs[i].threadError
        /\ remote[Key(reqs[i])].embed.status = "Sold"
        /\ remote[Key(reqs[i])].thread[1].archived

\* A request whose guarded update returned no row ended without a remote
\* call while another request patched the announcement.
C26_RejectedWitness ==
    \E i, j \in DOMAIN reqs :
        /\ reqs[i].kind \in C29_Transitions
        /\ reqs[i].pc = "done"
        /\ reqs[i].trade # Null
        /\ reqs[i].updated = Null
        /\ reqs[i].sent = <<>>
        /\ reqs[j].sent # <<>>

\* ---- C22 ----
C22_ThreadPosts == SelectSeq(calls, LAMBDA call : call.request = "POST threads")

\* The first tag id the forum lists.
C22_FirstTagId ==
    LET tags == remote.available_tags[1]
        k == CHOOSE k \in DOMAIN tags :
                 tags[k] # Null /\ \A j \in 1 .. (k - 1) : tags[j] = Null
    IN tags[k][1]

\* The call failed because the forum requires a tag and none was supplied.
C22_TagRequired(call) ==
    /\ call.request = "POST threads"
    /\ ~call.answer.ok
    /\ call.answer.status = BAD_REQUEST
    /\ call.answer.code = TAG_REQUIRED
    /\ call.applied_tags = Null
    /\ NoTags(reqs[1].supplied)

C24_Verified(q) ==
    /\ q.headers /\ q.valid /\ q.parses
    /\ q.type \in {"APPLICATION_COMMAND", "MESSAGE_COMPONENT"}

C24_Generic ==
    { "An unexpected error occurred while processing the component interaction.",
      "An unexpected error occurred while processing the command." }

\* C24: every verified command or component request is answered, once,
\* with a JSON reply, and when its handler threw the reply carries the
\* generic 'unexpected error' message; it is never left unanswered once
\* its handler has ended.
C24_ThrowingHandlerIsAnswered ==
    LET q == reqs[1]
    IN C24_Verified(q) =>
          /\ Len(calls) <= 1
          /\ q.pc = "answered" <=> Len(calls) = 1
          /\ q.pc \in {"verify", "route", "component", "command", "answered"}
          /\ \A k \in DOMAIN calls :
                /\ calls[k].json /\ calls[k].status = 200
                /\ (q.outcome = "throws" /\ q.type = "MESSAGE_COMPONENT") =>
                      calls[k].content \in C24_Generic
                /\ (q.outcome = "throws" /\ q.name # Null /\ q.name[1] \in commandMap) =>
                      calls[k].content \in C24_Generic

\* The handler of a known command threw and the request got the generic
\* reply.
C24_Witness ==
    /\ C24_Verified(reqs[1])
    /\ reqs[1].type = "APPLICATION_COMMAND"
    /\ reqs[1].name = Some("sell")
    /\ reqs[1].outcome = "throws"
    /\ reqs[1].pc = "answered"
    /\ calls = << jsonResponse("An unexpected error occurred while processing the command.") >>

\* ---- C21 ----
\* The old row is in the table, under the present name of each of its
\* columns.
C21_Present(old, table) ==
    \E k \in DOMAIN table.rows :
        \A c \in DOMAIN old :
            LET name == IF c = LegacyColumn /\ c \notin table.columns
                          THEN "done_one_button_custom_id" ELSE c
            IN name \in DOMAIN table.rows[k] /\ table.rows[k][name] = old[c]

\* C21: no run of initializeDatabase raises an error; a run against a store
\* that an earlier run initialised changes neither table nor column nor
\* row; a run against an older trades table ends with the current columns,
\* the 'selled' status and every old row.
C21_SetupIsIdempotentAndKeepsRows ==
    \A k \in DOMAIN reqs :
        LET before == reqs[k].before
            after == IF k = Len(reqs) THEN remote ELSE reqs[k + 1].before
        IN /\ reqs[k].error = Null
           /\ (k > 1 /\ reqs[k - 1].error = Null) => reqs[k].ddl = <<>> /\ after = before
           /\ k = 1 =>
                 /\ after.exists /\ after.selled
                 /\ CurrentColumns \subseteq after.columns
                 /\ \A j \in DOMAIN before.rows : C21_Present(before.rows[j], after)

\* ---- C31 ----
\* Request i is a done request about to make a decrement that succeeds.
C31_Succeeds(i) ==
    /\ reqs[i].kind \in C27_Dones
    /\ reqs[i].pc = "reduce"
    /\ reduceTradeStock(trades, reqs[i].tid, reqs[i].amount).row # Null

\* C31: a successful done that leaves the trade open changes the stock of
\* its trade and nothing else, and goes on without the control-id clear;
\* the handler turns to the clear exactly when the row the decrement
\* returned is not open, and no later step of a done request but the clear
\* writes to a trade.
C31_OpenDoneChangesOnlyStock ==
    [][\A i \in DOMAIN reqs :
          /\ (C31_Succeeds(i) /\ reqs'[i] # reqs[i]) =>
                LET old == trades[reqs[i].tid]
                    row == trades'[reqs[i].tid]
                IN /\ row.stock = old.stock - reqs[i].amount
                   /\ row.status = "open" =>
                         /\ trades' = [trades EXCEPT ![reqs[i].tid].stock = row.stock]
                         /\ reqs'[i].pc # "clear"
                         /\ ~reqs'[i].metadataError
                   /\ row.status # "open" => reqs'[i].pc = "clear"
                   /\ reqs'[i].pc = "clear" <=> row.status # "open"
          /\ (reqs[i].kind \in C27_Dones /\ reqs[i].pc \notin {"reduce", "clear"}
              /\ reqs'[i] # reqs[i]) =>
                /\ trades' = trades
                /\ reqs'[i].pc # "clear"]_vars

\* A done of one unit has returned and the trade is open with one unit
\* less and with the control ids and the pointer it had.
C31_Witness ==
    \E i \in DOMAIN reqs :
        /\ reqs[i].kind \in C27_Dones
        /\ reqs[i].pc = "done"
        /\ reqs[i].reply = <<"Marked as done", "Remaining stock">>
        /\ reqs[i].trade # Null
        /\ trades[reqs[i].tid] = [reqs[i].trade[1] EXCEPT !.stock = @ - 1]
        /\ trades[reqs[i].tid].status = "open"
        /\ trades[reqs[i].tid].done_all_button_custom_id # Null
        /\ trades[reqs[i].tid].announcement_message_id # Null

\* ---- C32 ----
\* The column has the value the parameter gives it: its prior value for an
\* absent parameter, null for null, the text for a text.
C32_Field(param, prior, now) ==
    /\ param = Undefined => now = prior
    /\ param = Null => now = Null
    /\ (param # Undefined /\ param # Null) => now = param

C32_AllAbsent(m) ==
    /\ m.channelId = Undefined /\ m.messageId = Undefined
    /\ m.doneOneButtonId = Undefined /\ m.doneAllButtonId = Undefined
    /\ m.cancelButtonId = Undefined

C34_OutOfRange == {p \in DiscountOptions : p < MinPercent \/ p > MaxPercent}

\* C34: a call of updateTradeDiscount with a percent below 0 or above 95
\* throws and leaves the table as it was, returning no row; a /sell
\* discount request with such a percent returns the explanatory reply,
\* writes nothing and never reaches updateTradeDiscount.
C34_OutOfRangeIsRejected ==
    [][/\ \A t \in DOMAIN trades, p \in C34_OutOfRange :
             DbUpdateTradeDiscount(t, Some(p)) =>
                 /\ trades' = trades
                 /\ calls'[Len(calls')].threw
                 /\ calls'[Len(calls')].row = Null
       /\ \A t \in DOMAIN trades, p \in C34_OutOfRange :
             SellDiscountStart("g1", "u1", t, p) =>
                 /\ trades' = trades
                 /\ calls' = calls
                 /\ reqs'[Len(reqs')].pc = "done"
                 /\ reqs'[Len(reqs')].reply = <<"Provide a discount percentage between 0 and 95.">>
       /\ \A i \in DOMAIN reqs' :
             reqs'[i].pc = "discount" =>
                 reqs'[i].percent = Null \/ reqs'[i].percent[1] \in MinPercent .. MaxPercent]_vars

\* A direct call with 96 threw on a trade that a request had discounted by
\* 10 percent, another request with an outside percent was turned away,
\* and the trade still has its 10 percent.
C34_Witness ==
    /\ \E k \in DOMAIN calls :
          /\ calls[k].percent = Some(MaxPercent + 1)
          /\ calls[k].threw
          /\ calls[k].pre[1].discount_percent = Some(10)
          /\ PostOf(k) = calls[k].pre
    /\ \E i \in DOMAIN reqs :
          reqs[i].reply = <<"Provide a discount percentage between 0 and 95.">>
    /\ trades[1].discount_percent = Some(10)
    /\ trades[1].discounted_auec = Some(899)

\* ---- C35 ----
\* The calls made for the user, and among them those that gave the field a
\* non-null value.
C35_CallsOf(id) == {k \in DOMAIN calls : calls[k].id = id}

C35_Supplied(id, field) ==
    {k \in C35_CallsOf(id) : calls[k][field] # Undefined /\ calls[k][field] # Null}

C35_Last(set) == CHOOSE k \in set : \A j \in set : j <= k

C35_Expected(id, field) ==
    IF C35_Supplied(id, field) = {} THEN Null
                                    ELSE calls[C35_Last(C35_Supplied(id, field))][field]

\* C35: after any sequence of recordUser calls a user has a row exactly
\* when a call named it; its username is that of the last call for it, and
\* display_name and discriminator are each the value of the last call for
\* it that supplied a non-null value, null when none did.
C35_LastNonNullWins ==
    /\ DOMAIN remote = {calls[k].id : k \in DOMAIN calls}
    /\ \A id \in DOMAIN remote :
          /\ remote[id].username = calls[C35_Last(C35_CallsOf(id))].username
          /\ remote[id].display_name = C35_Expected(id, "displayName")
          /\ remote[id].discriminator = C35_Expected(id, "discriminator")

\* Three calls for u1: the second changed the display name, the third came
\* without names and changed the username only.
C35_Witness ==
    /\ Len(calls) = 3
    /\ \A k \in DOMAIN calls : calls[k].id = "u1"
    /\ calls[1].displayName = Some("Alice") /\ calls[1].discriminator = Some("0001")
    /\ calls[2].displayName = Some("Al")
    /\ calls[3].displayName = Undefined /\ calls[3].discriminator = Null
    /\ calls[3].username = "bob" /\ calls[2].username = "alice"
    /\ remote["u1"] = [username |-> "bob", display_name |-> Some("Al"),
                       discriminator |-> Some("0001")]

\* ---- C36 ----
\* The done request has answered 'Marked ... as done'.
C36_Acknowledged(r) ==
    /\ r.kind \in C27_Dones
    /\ r.pc = "done"
    /\ r.reply # <<>>
    /\ r.reply[1] = "Marked as done"

\* Its decrement went through and its answer is on the way.
C36_Pending(r) == r.kind \in C27_Dones /\ r.pc \in {"clear", "patch", "thread"}

RECURSIVE C36_Sum(_, _, _)
C36_Sum(counted(_), t, n) ==
    IF n = 0
      THEN 0
      ELSE C36_Sum(counted, t, n - 1)
           + (IF reqs[n].tid = t /\ counted(reqs[n]) THEN reqs[n].amount ELSE 0)

C36_Done(r) == C36_Acknowledged(r) \/ C36_Pending(r)

PressedCustomIds ==
    StoredCustomIds
    \cup { <<t, "done">> : t \in DOMAIN trades }
    \cup { <<t, "cancel", "old">> : t \in DOMAIN trades }

PressedBuyCustomIds ==
    StoredBuyCustomIds
    \cup { <<"buy", o, "done", "old">> : o \in DOMAIN orders }
    \cup { <<"buy", o, "cancel", "old">> : o \in DOMAIN orders }

NextButtons ==
    \/ \E g \in ActiveGuilds, u \in ActiveUsers, c \in PressedCustomIds :
          TradeComponentStart(g, u, c) /\ Env /\ UNCHANGED remote
    \/ \E i \in DOMAIN reqs : DoneReduce(i) /\ Env /\ UNCHANGED remote
    \/ \E i \in DOMAIN reqs, ok \in PatchOutcomes : ClearTradeControls(i, ok) /\ Env /\ UNCHANGED remote
    \/ \E i \in DOMAIN reqs : CancelUpdateStatus(i) /\ Env /\ UNCHANGED remote
    \/ \E g \in ActiveGuilds, u \in ActiveUsers, c \in PressedBuyCustomIds :
          BuyComponentStart(g, u, c) /\ BuyEnv /\ UNCHANGED remote
    \/ \E i \in DOMAIN reqs : BuyUpdateStatus(i) /\ BuyEnv /\ UNCHANGED remote
    \/ \E i \in DOMAIN reqs, ok \in PatchOutcomes : BuyClearControls(i, ok) /\ BuyEnv /\ UNCHANGED remote
    \/ \E i \in DOMAIN reqs, ok \in BOOLEAN : PatchAnnouncement(i, ok) /\ Env
    \/ \E i \in DOMAIN reqs, ok \in BOOLEAN : SyncForumThread(i, ok) /\ Env

SpecButtons == InitGateway /\ [][NextButtons]_vars

\* ---- C37 ----
\* The control id the record holds for the action a pressed id names.
C37_StoredFor(trade, c) ==
    IF c[2] = "cancel" THEN trade.cancel_button_custom_id
    ELSE IF Len(c) >= 3 /\ c[3] = "all" THEN trade.done_all_button_custom_id
    ELSE trade.done_one_button_custom_id

C37_BuyStoredFor(order, c) ==
    IF c[3] = "cancel" THEN order.cancel_button_custom_id
                       ELSE order.done_button_custom_id

C37_Refusals ==
    {"This trade action is no longer valid.", "This buy order action is no longer valid.",
     "is already"}

\* The request just started was turned away.
C37_TurnedAway ==
    LET r == reqs'[Len(reqs')]
    IN /\ r.pc = "done"
       /\ r.reply[1] \in C37_Refusals
       /\ trades' = trades
       /\ orders' = orders

\* A press whose id is not the one stored for its action is turned away.
C37_StalePressIsRefused ==
    /\ \A g \in ActiveGuilds, u \in ActiveUsers, c \in PressedCustomIds :
          (TradeComponentStart(g, u, c) /\ C37_StoredFor(trades[c[1]], c) # Some(c))
             => C37_TurnedAway
    /\ \A g \in ActiveGuilds, u \in ActiveUsers, c \in PressedBuyCustomIds :
          (BuyComponentStart(g, u, c) /\ C37_BuyStoredFor(orders[c[2]], c) # Some(c))
             => C37_TurnedAway

C37_Cleared(trade) ==
    /\ trade.done_one_button_custom_id = Null
    /\ trade.done_all_button_custom_id = Null
    /\ trade.cancel_button_custom_id = Null

C37_BuyCleared(order) ==
    order.done_button_custom_id = Null /\ order.cancel_button_custom_id = Null

\* No step of a button interaction changes a record whose ids are cleared.
C37_ClearedIsFinal ==
    /\ \A t \in DOMAIN trades : C37_Cleared(trades[t]) => trades'[t] = trades[t]
    /\ \A o \in DOMAIN orders : C37_BuyCleared(orders[o]) => orders'[o] = orders[o]

\* C37: a trade or buy button press whose id is not the control id stored
\* for its action (another id, or an id that was cleared) is answered with
\* 'no longer valid' or 'already <status>' and changes nothing, and once the
\* control ids of a record are cleared no button interaction changes it.
C37_StaleButtonsChangeNothing ==
    [][C37_StalePressIsRefused /\ C37_ClearedIsFinal]_vars

\* ---- C38 ----
C38_Paired(row) ==
    (row.announcement_channel_id = Null) <=> (row.announcement_message_id = Null)

C38_AllPaired ==
    /\ \A t \in DOMAIN trades : C38_Paired(trades[t])
    /\ \A o \in DOMAIN orders : C38_Paired(orders[o])

C38_SamePointer(old, new) ==
    /\ new.announcement_channel_id = old.announcement_channel_id
    /\ new.announcement_message_id = old.announcement_message_id

\* A pointer that has been written stays as it is, and the record with it.
C38_Kept ==
    /\ \A t \in DOMAIN trades :
          (trades[t].announcement_channel_id # Null \/ trades[t].announcement_message_id # Null)
             => (t \in DOMAIN trades' /\ C38_SamePointer(trades[t], trades'[t]))
    /\ \A o \in DOMAIN orders :
          (orders[o].announcement_channel_id # Null \/ orders[o].announcement_message_id # Null)
             => (o \in DOMAIN orders' /\ C38_SamePointer(orders[o], orders'[o]))

====
